---- MODULE Spec2Model ----
(***************************************************************************)
(* The summariser pipeline: LangAgent.run_for_channel and                  *)
(* LangAgent._run_for_channel (lang_agent.py), Agent.search_channel_videos *)
(* (agent.py), the filters of utils.py, the prompt registry of prompt.py,  *)
(* the file cache of lang_agent.py and TelegramNotifier.send_message.      *)
(* The component functions are specified on their own: the caption parsers *)
(* (SpecParse) and download_subtitles (SpecSubtitles) of subtitles.py,     *)
(* YouTubeMonitor.get_video_transcript (SpecMonitor) and AISummarizer      *)
(* (SpecSummarizer).                                                       *)
(*                                                                         *)
(* Texts are tuples of characters, so that file names, JSON escaping and   *)
(* lower-casing are computed character by character.                       *)
(***************************************************************************)
EXTENDS Integers, Sequences, FiniteSets, TLC

\* ------------------------------------------------------------------ bounds
\* Longest batch the fetcher returns (max_results of the call).
MaxItems == 2
\* Number of orchestrator calls in one behaviour.
MaxCalls == 2
\* Channels of one get_videos_with_transcripts call
MaxChannels == 2
\* Longest text stored by the cache round-trip specification.
MaxTextLen == 2
\* Most lines of a caption file given to the parsers.
MaxLines == 4
\* Most languages in the langs argument of download_subtitles.
MaxLangs == 2
\* Most segments the captions provider returns for a video.
MaxSegments == 3

\* ------------------------------------------------------- program constants
\* time.sleep(10) after each notification.
SleepSeconds == 10
\* datetime.timedelta(days=days): one day in seconds.
DaySeconds == 86400

\* ------------------------------------------------------------------ values
\* Python's None.  No text equals it: texts are tuples of single characters.
None == <<"None">>

QUOTE == "\""
BACKSLASH == "\\"

\* Wall clock at process start (seconds); chosen away from 0 so that
\* two-day cutoffs stay positive.
Now0 == 3 * DaySeconds

\* The sources the calls are made for, and the keys of configs/prompts.yml.
Channels == { <<"a">>, <<"a", "_", "b">> }
ConfigKeys == { <<"A">> }

\* The ids of the items of a batch, by position (ids are unique in a batch).
VideoIdAt(k) ==
    CASE k = 1 -> <<"x">>
      [] k = 2 -> <<"b", "_", "x">>
      [] OTHER -> <<"y">>
VideoIds == { VideoIdAt(k) : k \in 1..MaxItems }

Titles == { <<"t">>, <<"T">> }
Descriptions == { <<>>, <<"d">> }

\* What the resolver and the gateway can return besides None.
TranscriptTexts == { <<QUOTE, "t">> }
SummaryTexts == { <<"s", BACKSLASH>> }

RECURSIVE SeqsUpTo(_, _)
SeqsUpTo(S, n) ==
    IF n = 0 THEN { <<>> }
    ELSE LET shorter == SeqsUpTo(S, n - 1)
         IN  shorter \cup { Append(s, c) : s \in shorter, c \in S }

\* --------------------------------------------------------------- utils.py
\* An ISO-8601 timestamp is its wall-clock reading (seconds) and its zone
\* designator: "Z", "+00:00" or "+01:00".  publishedAt of the directory
\* provider ends in "Z".

\* str.replace("Z", "+00:00")
ReplaceZ(zone) == IF zone = "Z" THEN "+00:00" ELSE zone

\* utcoffset of a datetime parsed by datetime.fromisoformat
UtcOffset(zone) == IF zone = "+01:00" THEN 3600 ELSE 0

\* datetime.fromisoformat(dt): the instant (UTC seconds) the timestamp names
FromIsoFormat(clock, zone) == clock - UtcOffset(zone)

\* Mutant: the cutoff comparison is <= instead of <.
OutOfDateInclusive(item, days, nowUtc) ==
    LET dt == ReplaceZ(item.publishedAt.zone)
        cutoff == nowUtc - days * DaySeconds
        published_at == FromIsoFormat(item.publishedAt.clock, dt)
    IN  published_at <= cutoff

\* out_of_date(item, days), with datetime.now(timezone.utc) = nowUtc
out_of_date(item, days, nowUtc) ==
    LET dt == ReplaceZ(item.publishedAt.zone)
        cutoff == nowUtc - days * DaySeconds
        published_at == FromIsoFormat(item.publishedAt.clock, dt)
    IN  published_at < cutoff

\* f"https://www.youtube.com/watch?v={video_id}"
UrlOf(video_id) == <<"https://www.youtube.com/watch?v=">> \o video_id

\* item_to_video(item)
item_to_video(item) ==
    [ video_id     |-> item.videoId,
      channel      |-> item.channelTitle,
      channel_id   |-> item.channelId,
      title        |-> item.title,
      published_at |-> item.publishedAt,
      url          |-> IF item.videoId # None THEN UrlOf(item.videoId) ELSE None,
      transcript   |-> None,
      summary      |-> None ]

\* --------------------------------------------------------------- prompt.py
LowerChar(c) ==
    CASE c = "A" -> "a"
      [] c = "B" -> "b"
      [] c = "T" -> "t"
      [] OTHER -> c

\* str.lower()
Lower(text) == [ k \in 1..Len(text) |-> LowerChar(text[k]) ]

\* PromptRegistry.__init__: self._registry, keyed by channel.lower()
Registry == { Lower(key) : key \in ConfigKeys }

\* PromptConfig(channel, sys_prompt) of a registered channel
PromptConfig(key) == [ channel |-> key, sys_prompt |-> <<"p">> ]

\* The None that dict.get returns for a missing key (a record, to be
\* comparable with a PromptConfig).
NoPromptConfig == [ none |-> TRUE ]

\* PromptRegistry.get(channel): dict.get, None when the key is missing
PromptGet(channel) ==
    IF Lower(channel) \in Registry THEN PromptConfig(Lower(channel)) ELSE NoPromptConfig

\* ------------------------------------------------- lang_agent.py: filtering
\* Mutant: the title is recorded as seen before the other two tests.
RECURSIVE FilterSeenFirst(_, _, _, _, _)
FilterSeenFirst(items, k, seen_titles, days, nowUtc) ==
    IF k > Len(items) THEN <<>>
    ELSE LET i == items[k]
             keep == /\ i.title \notin seen_titles
                     /\ Len(i.description) > 0
                     /\ ~out_of_date(i, days, nowUtc)
         IN  IF keep
             THEN <<item_to_video(i)>>
                  \o FilterSeenFirst(items, k + 1, seen_titles \cup {i.title}, days, nowUtc)
             ELSE FilterSeenFirst(items, k + 1, seen_titles \cup {i.title}, days, nowUtc)

\* Mutant: the walrus variable video_id holds the video id, not the title.
RECURSIVE FilterByVideoId(_, _, _, _, _)
FilterByVideoId(items, k, seen_titles, days, nowUtc) ==
    IF k > Len(items) THEN <<>>
    ELSE LET i == items[k]
             keep == /\ Len(i.description) > 0
                     /\ ~out_of_date(i, days, nowUtc)
                     /\ i.videoId \notin seen_titles
         IN  IF keep
             THEN <<item_to_video(i)>>
                  \o FilterByVideoId(items, k + 1, seen_titles \cup {i.videoId}, days, nowUtc)
             ELSE FilterByVideoId(items, k + 1, seen_titles, days, nowUtc)

\* Mutant: the description of an item is not tested.
RECURSIVE FilterKeepingEmptyDescriptions(_, _, _, _, _)
FilterKeepingEmptyDescriptions(items, k, seen_titles, days, nowUtc) ==
    IF k > Len(items) THEN <<>>
    ELSE LET i == items[k]
             keep == /\ ~out_of_date(i, days, nowUtc)
                     /\ i.title \notin seen_titles
         IN  IF keep
             THEN <<item_to_video(i)>>
                  \o FilterKeepingEmptyDescriptions(items, k + 1,
                                                    seen_titles \cup {i.title}, days, nowUtc)
             ELSE FilterKeepingEmptyDescriptions(items, k + 1, seen_titles, days, nowUtc)

\* The list comprehension of run_for_channel from item k on: `and` evaluates
\* left to right and stops at the first false operand, so seen_titles.add
\* runs only for an item that passed the three tests before it.
RECURSIVE FilterItems(_, _, _, _, _)
FilterItems(items, k, seen_titles, days, nowUtc) ==
    IF k > Len(items) THEN <<>>
    ELSE LET i == items[k]
             keep == /\ Len(i.description) > 0
                     /\ ~out_of_date(i, days, nowUtc)
                     /\ i.title \notin seen_titles
         IN  IF keep
             THEN <<item_to_video(i)>>
                  \o FilterItems(items, k + 1, seen_titles \cup {i.title}, days, nowUtc)
             ELSE FilterItems(items, k + 1, seen_titles, days, nowUtc)

\* ---------------------------------------------------- lang_agent.py: cache
\* f"data/{channel_name}_{video_id}.json"
FileName(channel_name, video_id) == channel_name \o <<"_">> \o video_id

\* json.dump of a str: quotes and backslashes are escaped
RECURSIVE Escape(_)
Escape(text) ==
    IF text = <<>> THEN <<>>
    ELSE IF Head(text) \in {QUOTE, BACKSLASH}
         THEN <<BACKSLASH, Head(text)>> \o Escape(Tail(text))
         ELSE <<Head(text)>> \o Escape(Tail(text))

\* json.load of the inside of a string literal
RECURSIVE Unescape(_)
Unescape(body) ==
    IF body = <<>> THEN <<>>
    ELSE IF Head(body) = BACKSLASH /\ Len(body) >= 2
         THEN <<body[2]>> \o Unescape(SubSeq(body, 3, Len(body)))
         ELSE <<Head(body)>> \o Unescape(Tail(body))

JsonNull == <<"n", "u", "l", "l">>

\* json.dump of one value of the video dict: None or str
EncodeValue(x) ==
    IF x = None THEN JsonNull ELSE <<QUOTE>> \o Escape(x) \o <<QUOTE>>

\* json.load of one value
DecodeValue(token) ==
    IF token = JsonNull THEN None
    ELSE Unescape(SubSeq(token, 2, Len(token) - 1))

\* json.dump(v, f, ensure_ascii=False, indent=4): the document, member by
\* member.  published_at is a timestamp string with nothing to escape and is
\* kept as the timestamp it spells.
JsonDump(v) ==
    [ k \in DOMAIN v |-> IF k = "published_at" THEN v[k] ELSE EncodeValue(v[k]) ]

\* json.load(f)
JsonLoad(doc) ==
    [ k \in DOMAIN doc |-> IF k = "published_at" THEN doc[k] ELSE DecodeValue(doc[k]) ]

\* Mutant: the record is updated member by member, and a member whose new
\* value is null keeps what the earlier record held.
WriteFileKeepingMembers(files, name, v) ==
    [ n \in (DOMAIN files) \cup {name} |->
        IF n # name THEN files[n]
        ELSE IF name \notin DOMAIN files THEN JsonDump(v)
        ELSE [ k \in DOMAIN v |->
                 IF k # "published_at" /\ v[k] = None THEN files[name][k]
                 ELSE JsonDump(v)[k] ] ]

\* open(name, "w") ... json.dump: the file is truncated and rewritten
WriteFile(files, name, v) ==
    [ n \in (DOMAIN files) \cup {name} |-> IF n = name THEN JsonDump(v) ELSE files[n] ]

\* LangAgent._save_video_to_file(channel_name, v)
SaveVideoToFile(files, channel_name, v) ==
    WriteFile(files, FileName(channel_name, v.video_id), v)

\* LangAgent._load_video_from_file(channel_name, video_id); open raises
\* FileNotFoundError when the file is missing (FileExists is its guard)
FileExists(files, channel_name, video_id) ==
    FileName(channel_name, video_id) \in DOMAIN files
LoadVideoFromFile(files, channel_name, video_id) ==
    JsonLoad(files[FileName(channel_name, video_id)])

\* ------------------------------------------------------ telegram_notifier.py
\* TelegramNotifier.send_message(text, parse_mode): `sent` is what the call
\* of bot.send_message does (TRUE: it returns, FALSE: it raises).  One call
\* is made; an exception is caught and reported as False, so none leaves
\* send_message (raised).  outcomes lists what each call made did.
\* Mutant: the try/except is lost, and the exception of the provider leaves
\* send_message.
SendMessageUncaught(text, sent) ==
    [ text |-> text, outcomes |-> << sent >>, delivered |-> sent, attempts |-> 1,
      raised |-> ~sent ]

SendMessage(text, sent) ==
    [ text |-> text, outcomes |-> << sent >>, delivered |-> sent, attempts |-> 1,
      raised |-> FALSE ]

\* TelegramNotifier.message_template(channel_name, url, summary)
MessageTemplate(channel, url, summary) ==
    [ channel |-> channel, url |-> url, summary |-> summary ]

\* str(x) inside an f-string
Str(x) == IF x = None THEN <<"N", "o", "n", "e">> ELSE x

\* f"{summary}\n{url}" of Agent.search_channel_videos
AgentMessage(summary, url) == Str(summary) \o <<"\n">> \o url

\* ------------------------------------------------------------------- state
VARIABLES
    program,       \* the script that is run: lang_agent.py or agent.py
    feed,          \* what the directory provider lists for a channel
    now,           \* the wall clock, UTC seconds
    files,         \* the data/ directory: file name -> JSON document
    videos,        \* the class attributes LangAgent.videos and Agent.videos
    loop_closed,   \* asyncio.run has run in this process
    calls,         \* orchestrator calls made so far
    fn,            \* the orchestrator method being executed
    channel_name,  \* its channel_name argument
    days,          \* its days argument
    prompt_cfg,    \* its local prompt_cfg
    todo,          \* the list it iterates over
    idx,           \* position of the current element in todo
    v,             \* the current element (the dict v, or Agent's locals)
    pc,            \* the statement it is at
    dispatch,      \* the dispatch just made: the outcomes of the provider
                   \* calls it made, and its result
    log,           \* the external calls made so far, in order
    args,          \* the arguments of a component function called on its own
    scratch,       \* the scratch directory of download_subtitles: path -> file
    result         \* what a component function called on its own returned

vars == << program, feed, now, files, videos, loop_closed, calls, fn, channel_name, days,
           prompt_cfg, todo, idx, v, pc, dispatch, log, args, scratch, result >>

\* No component function is being called on its own.
NoArgs == [ none |-> TRUE ]
NoResult == [ none |-> TRUE ]

NoVideo == [ video_id |-> None ]
NoDispatch ==
    [ text |-> <<>>, outcomes |-> <<>>, delivered |-> FALSE, attempts |-> 0, raised |-> FALSE ]

LangFns == { "run_for_channel", "_run_for_channel" }

\* An entry of the log: the call made, by which orchestrator call, for which
\* item, and the transcript and summary the item holds when the call returns.
Event(op, video) ==
    [ op |-> op, fn |-> fn, call |-> calls, channel |-> channel_name,
      id |-> video.video_id,
      transcript |-> video.transcript, summary |-> video.summary ]

\* An item of a batch: the search result fields the pipeline reads.
PublishedChoices ==
    LET cut == Now0 - DaySeconds
    IN  { [clock |-> cut - 1,    zone |-> "Z"],
          [clock |-> cut,        zone |-> "Z"],
          [clock |-> cut + 3600, zone |-> "+01:00"],
          [clock |-> cut + 3599, zone |-> "+01:00"],
          [clock |-> cut + 1,    zone |-> "+00:00"] }

FeedItems == [ title : Titles, description : Descriptions, publishedAt : PublishedChoices ]

Feeds == SeqsUpTo(FeedItems, MaxItems)

\* Batches of items that pass every filter when the process starts: the
\* batches that behaviours with several calls are explored for.
PlainItems ==
    { i \in FeedItems : /\ i.description # <<>>
                        /\ i.publishedAt = [clock |-> Now0 - DaySeconds + 1, zone |-> "+00:00"] }

PlainFeeds == SeqsUpTo(PlainItems, MaxItems)

\* Calls explored for a batch: MaxCalls for a plain batch, one otherwise.
CallBudget == IF feed \in PlainFeeds THEN MaxCalls ELSE 1

\* fetcher.fetch_videos(channel_name, max_results) and
\* fetcher.search_channel_videos(channel_name, max_results): the listed items
\* as search results of that channel
FetchVideos(channel) ==
    [ k \in 1..Len(feed) |->
        [ videoId      |-> VideoIdAt(k),
          channelTitle |-> channel,
          channelId    |-> <<"U", "C">> \o channel,
          title        |-> feed[k].title,
          description  |-> feed[k].description,
          publishedAt  |-> feed[k].publishedAt ] ]

\* The dict Agent.search_channel_videos appends to Agent.videos
AgentVideo(item) ==
    [ channel_id    |-> item.channelId,
      channel_title |-> item.channelTitle,
      video_id      |-> item.videoId,
      title         |-> item.title,
      published_at  |-> item.publishedAt,
      transcript    |-> None,
      summary       |-> None,
      url           |-> UrlOf(item.videoId) ]

\* Agent.search_channel_videos, lines 32-40: the first item from position k on
\* that is not older than the cutoff (Len + 1 when there is none)
RECURSIVE NextFresh(_, _, _, _)
NextFresh(items, k, d, nowUtc) ==
    IF k > Len(items) THEN k
    ELSE IF out_of_date(items[k], d, nowUtc) THEN NextFresh(items, k + 1, d, nowUtc)
         ELSE k

\* The next iteration of the for loop, at time nowUtc: the position and
\* element it starts with, or the return of the method.
NextPos(nowUtc) ==
    IF fn = "search_channel_videos" THEN NextFresh(todo, idx + 1, days, nowUtc)
    ELSE idx + 1

Continue(nowUtc) ==
    LET k == NextPos(nowUtc)
    IN  /\ idx' = k
        /\ IF k > Len(todo)
           THEN pc' = "idle" /\ v' = NoVideo
           ELSE /\ pc' = "get_transcript"
                /\ v' = IF fn = "search_channel_videos" THEN AgentVideo(todo[k]) ELSE todo[k]

Init ==
    /\ program \in {"lang_agent.py", "agent.py"}
    /\ feed \in Feeds
    /\ now = Now0
    /\ files = <<>>
    /\ videos = [ LangAgent |-> <<>>, Agent |-> <<>> ]
    /\ loop_closed = FALSE
    /\ calls = 0
    /\ fn = "none"
    /\ channel_name = None
    /\ days = 0
    /\ prompt_cfg = NoPromptConfig
    /\ todo = <<>>
    /\ idx = 0
    /\ v = NoVideo
    /\ pc = "idle"
    /\ dispatch = NoDispatch
    /\ log = <<>>
    /\ args = NoArgs
    /\ scratch = <<>>
    /\ result = NoResult

\* LangAgent.run_for_channel, lines 28-42: the prompt lookup, the fetch, the
\* filter and the entry into the loop
RunForChannel(channel, d) ==
    /\ pc = "idle"
    /\ program = "lang_agent.py"
    /\ calls < CallBudget
    /\ LET list == FilterItems(FetchVideos(channel), 1, {}, d, now)
       IN  /\ todo' = list
           /\ idx' = 1
           /\ pc' = IF list = <<>> THEN "idle" ELSE "get_transcript"
           /\ v' = IF list = <<>> THEN NoVideo ELSE list[1]
    /\ calls' = calls + 1
    /\ fn' = "run_for_channel"
    /\ channel_name' = channel
    /\ days' = d
    /\ prompt_cfg' = PromptGet(channel)
    /\ dispatch' = NoDispatch
    /\ UNCHANGED << args, scratch, result >>
    /\ UNCHANGED << program, feed, now, files, videos, loop_closed, log >>

\* LangAgent._run_for_channel, lines 60-66: the prompt lookup and the load of
\* the cached record; open() raises when there is no such file
ResumeForChannel(channel, id) ==
    /\ pc = "idle"
    /\ program = "lang_agent.py"
    /\ calls < CallBudget
    /\ calls' = calls + 1
    /\ fn' = "_run_for_channel"
    /\ channel_name' = channel
    /\ days' = 0
    /\ prompt_cfg' = PromptGet(channel)
    /\ dispatch' = NoDispatch
    /\ idx' = 1
    /\ IF FileExists(files, channel, id)
       THEN /\ todo' = << LoadVideoFromFile(files, channel, id) >>
            /\ v' = LoadVideoFromFile(files, channel, id)
            /\ pc' = "get_transcript"
       ELSE /\ todo' = <<>>
            /\ v' = NoVideo
            /\ pc' = "raised"
    /\ UNCHANGED << args, scratch, result >>
    /\ UNCHANGED << program, feed, now, files, videos, loop_closed, log >>

\* Agent.search_channel_videos, lines 30-40: the fetch and the entry into the
\* loop, skipping the items older than the cutoff
SearchChannelVideos(channel, d) ==
    /\ pc = "idle"
    /\ program = "agent.py"
    /\ calls < CallBudget
    /\ calls' = calls + 1
    /\ fn' = "search_channel_videos"
    /\ channel_name' = channel
    /\ days' = d
    /\ prompt_cfg' = NoPromptConfig
    /\ dispatch' = NoDispatch
    /\ LET items == FetchVideos(channel)
           k == NextFresh(items, 1, d, now)
       IN  /\ todo' = items
           /\ idx' = k
           /\ pc' = IF k > Len(items) THEN "idle" ELSE "get_transcript"
           /\ v' = IF k > Len(items) THEN NoVideo ELSE AgentVideo(items[k])
    /\ UNCHANGED << args, scratch, result >>
    /\ UNCHANGED << program, feed, now, files, videos, loop_closed, log >>

\* Mutant: the `continue` after a missing transcript is lost, so the item
\* goes on to summarization.
GetTranscriptNoContinue ==
    /\ pc = "get_transcript"
    /\ \E t \in {None} \cup TranscriptTexts :
         LET v1 == [v EXCEPT !.transcript = t]
         IN  /\ v' = v1
             /\ pc' = "summarize"
             /\ IF t = None /\ fn \in LangFns
                THEN /\ files' = SaveVideoToFile(files, channel_name, v1)
                     /\ log' = log \o << Event("get_video_transcript", v1),
                                         Event("save", v1) >>
                ELSE /\ files' = files
                     /\ log' = Append(log, Event("get_video_transcript", v1))
             /\ UNCHANGED idx
    /\ UNCHANGED << args, scratch, result >>
    /\ UNCHANGED << program, feed, now, videos, loop_closed, calls, fn, channel_name, days,
                    prompt_cfg, todo, dispatch >>

\* lang_agent.py lines 44-49 and 67-72, agent.py lines 45-47: the transcript
\* is fetched; when there is none the item is dropped (and, in LangAgent,
\* saved first)
GetTranscript ==
    /\ pc = "get_transcript"
    /\ \E t \in {None} \cup TranscriptTexts :
         LET v1 == [v EXCEPT !.transcript = t]
         IN  IF t = None
             THEN /\ Continue(now)
                  /\ IF fn \in LangFns
                     THEN /\ files' = SaveVideoToFile(files, channel_name, v1)
                          /\ log' = log \o << Event("get_video_transcript", v1),
                                              Event("save", v1) >>
                     ELSE /\ files' = files
                          /\ log' = Append(log, Event("get_video_transcript", v1))
             ELSE /\ v' = v1
                  /\ pc' = "summarize"
                  /\ log' = Append(log, Event("get_video_transcript", v1))
                  /\ UNCHANGED << files, idx >>
    /\ UNCHANGED << args, scratch, result >>
    /\ UNCHANGED << program, feed, now, videos, loop_closed, calls, fn, channel_name, days,
                    prompt_cfg, todo, dispatch >>

\* Mutant: the record is saved before the summary is stored in the item.
SummarizeSavingFirst ==
    /\ pc = "summarize"
    /\ IF fn \in LangFns /\ prompt_cfg = NoPromptConfig
       THEN /\ pc' = "raised"
            /\ UNCHANGED << v, videos, files, log >>
       ELSE \E s \in {None} \cup SummaryTexts :
              LET v1 == [v EXCEPT !.summary = s]
              IN  /\ v' = v1
                  /\ pc' = "notify"
                  /\ IF fn \in LangFns
                     THEN /\ videos' = [videos EXCEPT !.LangAgent = Append(@, v1)]
                          /\ files' = SaveVideoToFile(files, channel_name, v)
                          /\ log' = log \o << Event("save", v), Event("summarize", v1) >>
                     ELSE /\ videos' = [videos EXCEPT !.Agent = Append(@, v1)]
                          /\ files' = files
                          /\ log' = Append(log, Event("summarize", v1))
    /\ UNCHANGED << args, scratch, result >>
    /\ UNCHANGED << program, feed, now, loop_closed, calls, fn, channel_name, days,
                    prompt_cfg, todo, idx, dispatch >>

\* lang_agent.py lines 51-54 and 74-77, agent.py lines 59-74: the summary is
\* requested and stored whatever it is, the item joins the class-level list
\* and (in LangAgent) is saved.  prompt_cfg.sys_prompt raises AttributeError
\* when the channel has no prompt.
Summarize ==
    /\ pc = "summarize"
    /\ IF fn \in LangFns /\ prompt_cfg = NoPromptConfig
       THEN /\ pc' = "raised"
            /\ UNCHANGED << v, videos, files, log >>
       ELSE \E s \in {None} \cup SummaryTexts :
              LET v1 == [v EXCEPT !.summary = s]
              IN  /\ v' = v1
                  /\ pc' = "notify"
                  /\ IF fn \in LangFns
                     THEN /\ videos' = [videos EXCEPT !.LangAgent = Append(@, v1)]
                          /\ files' = SaveVideoToFile(files, channel_name, v1)
                          /\ log' = log \o << Event("summarize", v1), Event("save", v1) >>
                     ELSE /\ videos' = [videos EXCEPT !.Agent = Append(@, v1)]
                          /\ files' = files
                          /\ log' = Append(log, Event("summarize", v1))
    /\ UNCHANGED << args, scratch, result >>
    /\ UNCHANGED << program, feed, now, loop_closed, calls, fn, channel_name, days,
                    prompt_cfg, todo, idx, dispatch >>

\* Mutant: the send is scheduled and not awaited; the loop goes on to the
\* next item at once.
NotifyWithoutWaiting ==
    /\ pc = "notify"
    /\ \E sent \in BOOLEAN :
         LET msg == IF fn = "search_channel_videos"
                    THEN AgentMessage(v.summary, v.url)
                    ELSE MessageTemplate(channel_name, v.url, v.summary)
         IN  /\ dispatch' = SendMessage(msg, sent)
             /\ log' = Append(log, Event("send_message", v))
             /\ loop_closed' = loop_closed
             /\ Continue(now)
    /\ UNCHANGED << args, scratch, result >>
    /\ UNCHANGED << program, feed, now, files, videos, calls, fn, channel_name, days,
                    prompt_cfg, todo >>

\* lang_agent.py lines 56-57 and 79-83, agent.py line 76: the message is
\* built and sent, and the caller waits for send_message to return; an
\* exception that leaves send_message ends the call.
\* asyncio.get_event_loop() of _run_for_channel raises RuntimeError when
\* asyncio.run has closed the loop of this process.
Notify ==
    /\ pc = "notify"
    /\ IF fn = "_run_for_channel" /\ loop_closed
       THEN /\ pc' = "raised"
            /\ UNCHANGED << dispatch, log, loop_closed >>
       ELSE \E sent \in BOOLEAN :
              LET msg == IF fn = "search_channel_videos"
                         THEN AgentMessage(v.summary, v.url)
                         ELSE MessageTemplate(channel_name, v.url, v.summary)
              IN  /\ dispatch' = SendMessage(msg, sent)
                  /\ log' = Append(log, Event("send_message", v))
                  /\ loop_closed' = IF fn = "_run_for_channel" THEN loop_closed ELSE TRUE
                  /\ pc' = IF SendMessage(msg, sent).raised THEN "raised" ELSE "sleep"
    /\ UNCHANGED << args, scratch, result >>
    /\ UNCHANGED << program, feed, now, files, videos, calls, fn, channel_name, days,
                    prompt_cfg, todo, idx, v >>

\* Mutant: the delay is a backoff, paid only after a failed delivery.
SleepAfterFailureOnly ==
    /\ pc = "sleep"
    /\ now' = IF dispatch.delivered THEN now ELSE now + SleepSeconds
    /\ log' = IF dispatch.delivered THEN log ELSE Append(log, Event("sleep", v))
    /\ Continue(now')
    /\ dispatch' = NoDispatch
    /\ UNCHANGED << args, scratch, result >>
    /\ UNCHANGED << program, feed, files, videos, loop_closed, calls, fn, channel_name, days,
                    prompt_cfg, todo >>

\* lang_agent.py lines 58 and 84, agent.py line 77: time.sleep(10), then the
\* next iteration
Sleep ==
    /\ pc = "sleep"
    /\ now' = now + SleepSeconds
    /\ log' = Append(log, Event("sleep", v))
    /\ Continue(now + SleepSeconds)
    /\ dispatch' = NoDispatch
    /\ UNCHANGED << args, scratch, result >>
    /\ UNCHANGED << program, feed, files, videos, loop_closed, calls, fn, channel_name, days,
                    prompt_cfg, todo >>

\* The script ends (normally or by an uncaught exception) and is started
\* again: class attributes and the event loop are per process, data/ stays.
Restart ==
    /\ pc \in {"idle", "raised"}
    /\ calls > 0
    /\ calls < CallBudget
    /\ fn # "none"
    /\ pc' = "idle"
    /\ fn' = "none"
    /\ videos' = [ LangAgent |-> <<>>, Agent |-> <<>> ]
    /\ loop_closed' = FALSE
    /\ channel_name' = None
    /\ days' = 0
    /\ prompt_cfg' = NoPromptConfig
    /\ todo' = <<>>
    /\ idx' = 0
    /\ v' = NoVideo
    /\ dispatch' = NoDispatch
    /\ UNCHANGED << args, scratch, result >>
    /\ UNCHANGED << program, feed, now, files, calls, log >>

Next ==
    \/ \E channel \in Channels, d \in {1, 2} : RunForChannel(channel, d)
    \/ \E channel \in Channels, id \in VideoIds : ResumeForChannel(channel, id)
    \/ \E channel \in Channels, d \in {1, 2} : SearchChannelVideos(channel, d)
    \/ GetTranscript
    \/ Summarize
    \/ Notify
    \/ Sleep
    \/ Restart

Spec == Init /\ [][Next]_vars

\* ------------------------------------------- one run over a mixed batch
\* A batch of three items: one older than the recency window of the call
\* (whichever days it is given), one with an empty description, one with a
\* description and recent; in any order, with any titles.
OldPublished == [ clock |-> Now0 - 2 * DaySeconds - 1, zone |-> "Z" ]
RecentPublished ==
    { [ clock |-> Now0 - DaySeconds, zone |-> "Z" ],
      [ clock |-> Now0 - DaySeconds + 3600, zone |-> "+01:00" ] }

OldItems == [ title : Titles, description : { << "d" >> }, publishedAt : { OldPublished } ]
EmptyItems == [ title : Titles, description : { <<>> }, publishedAt : RecentPublished ]
ValidItems == [ title : Titles, description : { << "d" >> }, publishedAt : RecentPublished ]

MixedFeeds ==
    { f \in [ 1..3 -> OldItems \cup EmptyItems \cup ValidItems ] :
        /\ \E k \in 1..3 : f[k] \in OldItems
        /\ \E k \in 1..3 : f[k] \in EmptyItems
        /\ \E k \in 1..3 : f[k] \in ValidItems }

InitMixed ==
    /\ program = "lang_agent.py"
    /\ feed \in MixedFeeds
    /\ now = Now0
    /\ files = <<>>
    /\ videos = [ LangAgent |-> <<>>, Agent |-> <<>> ]
    /\ loop_closed = FALSE
    /\ calls = 0
    /\ fn = "none"
    /\ channel_name = None
    /\ days = 0
    /\ prompt_cfg = NoPromptConfig
    /\ todo = <<>>
    /\ idx = 0
    /\ v = NoVideo
    /\ pc = "idle"
    /\ dispatch = NoDispatch
    /\ log = <<>>
    /\ args = NoArgs
    /\ scratch = <<>>
    /\ result = NoResult

NextMixed ==
    \/ \E channel \in Channels, d \in {1, 2} : RunForChannel(channel, d)
    \/ GetTranscript
    \/ Summarize
    \/ Notify
    \/ Sleep

SpecMixed == InitMixed /\ [][NextMixed]_vars

\* ------------------------------------------------ the cache on its own
\* One save over whatever data/ held, then a load by the same key, for
\* arbitrary items: the round trip through the file.
CacheChars == { "a", QUOTE, BACKSLASH }
CacheTexts == SeqsUpTo(CacheChars, MaxTextLen) \cup { JsonNull }

CacheVideos ==
    { [ video_id     |-> id,
        channel      |-> <<"c">>,
        channel_id   |-> <<"U", "C">>,
        title        |-> <<"t">>,
        published_at |-> [clock |-> Now0, zone |-> "Z"],
        url          |-> UrlOf(id),
        transcript   |-> t,
        summary      |-> s ] :
      id \in VideoIds,
      t \in {None} \cup CacheTexts,
      s \in {None} \cup SummaryTexts }

SaveEvent(channel, video) ==
    [ op |-> "save", fn |-> "_save_video_to_file", call |-> 0, channel |-> channel,
      id |-> video.video_id, transcript |-> video.transcript, summary |-> video.summary ]

\* data/ is empty or holds one record saved by an earlier process; log names
\* that save.
InitCache ==
    /\ program = "lang_agent.py"
    /\ feed = <<>>
    /\ now = Now0
    /\ \/ files = <<>> /\ log = <<>>
       \/ \E channel \in Channels, video \in CacheVideos :
             /\ files = SaveVideoToFile(<<>>, channel, video)
             /\ log = << SaveEvent(channel, video) >>
    /\ videos = [ LangAgent |-> <<>>, Agent |-> <<>> ]
    /\ loop_closed = FALSE
    /\ calls = 0
    /\ fn = "none"
    /\ channel_name = None
    /\ days = 0
    /\ prompt_cfg = NoPromptConfig
    /\ todo = <<>>
    /\ idx = 0
    /\ v = NoVideo
    /\ pc = "idle"
    /\ dispatch = NoDispatch
    /\ args = NoArgs
    /\ scratch = <<>>
    /\ result = NoResult

\* LangAgent._save_video_to_file(channel, video); todo remembers the dict
\* that was saved
CacheSave(channel, video) ==
    /\ pc = "idle"
    /\ files' = SaveVideoToFile(files, channel, video)
    /\ channel_name' = channel
    /\ todo' = << video >>
    /\ log' = Append(log, SaveEvent(channel, video))
    /\ pc' = "saved"
    /\ UNCHANGED << args, scratch, result >>
    /\ UNCHANGED << program, feed, now, videos, loop_closed, calls, fn, days, prompt_cfg,
                    idx, v, dispatch >>

\* LangAgent._load_video_from_file with the key of the save
CacheLoad ==
    /\ pc = "saved"
    /\ v' = LoadVideoFromFile(files, channel_name, todo[1].video_id)
    /\ pc' = "loaded"
    /\ UNCHANGED << args, scratch, result >>
    /\ UNCHANGED << program, feed, now, files, videos, loop_closed, calls, fn, channel_name,
                    days, prompt_cfg, todo, idx, dispatch, log >>

NextCache ==
    \/ \E channel \in Channels, video \in CacheVideos : CacheSave(channel, video)
    \/ CacheLoad

SpecCache == InitCache /\ [][NextCache]_vars

\* ---------------------------------------------------- subtitles.py: parsing
\* A caption file is the sequence of its lines, each a text without its
\* line terminator.
Digits == { "0", "1", "2", "3", "4", "5", "6", "7", "8", "9" }
Whitespace == { " ", "\t", "\n" }

\* str.strip()
RECURSIVE LStrip(_)
LStrip(s) == IF s # <<>> /\ Head(s) \in Whitespace THEN LStrip(Tail(s)) ELSE s
RECURSIVE RStrip(_)
RStrip(s) ==
    IF s # <<>> /\ s[Len(s)] \in Whitespace THEN RStrip(SubSeq(s, 1, Len(s) - 1)) ELSE s
Strip(s) == RStrip(LStrip(s))

\* str.isdigit()
IsDigit(s) == s # <<>> /\ \A k \in 1..Len(s) : s[k] \in Digits

\* re.compile(r"^\d{2}:\d{2}:\d{2}<sep>\d{3} -->").match(s), where <sep> is
\* "\." in _parse_vtt and "," in the SRT branch
TsMatch(s, sep) ==
    /\ Len(s) >= 16
    /\ \A k \in {1, 2, 4, 5, 7, 8, 10, 11, 12} : s[k] \in Digits
    /\ s[3] = ":" /\ s[6] = ":" /\ s[9] = sep
    /\ SubSeq(s, 13, 16) = << " ", "-", "-", ">" >>

UpperChar(c) ==
    CASE c = "w" -> "W" [] c = "e" -> "E" [] c = "b" -> "B"
      [] c = "v" -> "V" [] c = "t" -> "T" [] OTHER -> c

\* str.upper()
Upper(text) == [ k \in 1..Len(text) |-> UpperChar(text[k]) ]

\* str.startswith(prefix), str.endswith(suffix)
StartsWith(s, prefix) == Len(s) >= Len(prefix) /\ SubSeq(s, 1, Len(prefix)) = prefix
EndsWith(s, suffix) ==
    Len(s) >= Len(suffix) /\ SubSeq(s, Len(s) - Len(suffix) + 1, Len(s)) = suffix

WEBVTT == << "W", "E", "B", "V", "T", "T" >>

\* sep.join(parts)
RECURSIVE Join(_, _)
Join(sep, parts) ==
    IF parts = <<>> THEN <<>>
    ELSE IF Len(parts) = 1 THEN parts[1]
         ELSE parts[1] \o sep \o Join(sep, Tail(parts))

\* The loop of _parse_vtt: the lines it appends
RECURSIVE VttLines(_)
VttLines(lines) ==
    IF lines = <<>> THEN <<>>
    ELSE LET s == Strip(Head(lines))
         IN  IF \/ s = <<>>
                \/ IsDigit(s)
                \/ TsMatch(s, ".")
                \/ StartsWith(Upper(s), WEBVTT)
             THEN VttLines(Tail(lines))
             ELSE << s >> \o VttLines(Tail(lines))

\* _parse_vtt(path), on the lines of the file at path
parse_vtt(lines) == Join(<< "\n" >>, VttLines(lines))

\* The loop of the SRT branch of download_subtitles: the lines it appends
RECURSIVE SrtLines(_)
SrtLines(lines) ==
    IF lines = <<>> THEN <<>>
    ELSE LET s == Strip(Head(lines))
         IN  IF s = <<>> \/ IsDigit(s) \/ TsMatch(s, ",")
             THEN SrtLines(Tail(lines))
             ELSE << s >> \o SrtLines(Tail(lines))

\* The SRT branch of download_subtitles, on the lines of the file
parse_srt(lines) == Join(<< "\n" >>, SrtLines(lines))

\* Lines of caption files.
HeaderLine == WEBVTT
IndexLine == << "1" >>
VttCueLine == << "0", "0", ":", "0", "0", ":", "0", "1", ".", "0", "0", "0", " ", "-", "-", ">", " ", "0", "0", ":", "0", "0", ":", "0", "2", ".", "0", "0", "0" >>
\* WebVTT allows a cue timing without the hours field.
VttShortCueLine == << "0", "0", ":", "0", "1", ".", "0", "0", "0", " ", "-", "-", ">", " ", "0", "0", ":", "0", "2", ".", "0", "0", "0" >>
SrtCueLine == << "0", "0", ":", "0", "0", ":", "0", "1", ",", "0", "0", "0", " ", "-", "-", ">", " ", "0", "0", ":", "0", "0", ":", "0", "2", ",", "0", "0", "0" >>
TextLine == << "H", "e", "l", "l", "o", " ", "w", "o", "r", "l", "d" >>
BlankLine == <<>>
SpacesLine == << " ", " " >>

\* ------------------------------------------- the caption parsers on their own
\* The variables of the pipeline, which the component functions do not touch.
pipeline ==
    << program, feed, now, files, videos, loop_closed, calls, fn, channel_name, days,
       prompt_cfg, todo, idx, v, dispatch >>

\* No orchestrator runs.
PipelineIdle ==
    /\ program = "none"
    /\ feed = <<>>
    /\ now = Now0
    /\ files = <<>>
    /\ videos = [ LangAgent |-> <<>>, Agent |-> <<>> ]
    /\ loop_closed = FALSE
    /\ calls = 0
    /\ fn = "none"
    /\ channel_name = None
    /\ days = 0
    /\ prompt_cfg = NoPromptConfig
    /\ todo = <<>>
    /\ idx = 0
    /\ v = NoVideo
    /\ dispatch = NoDispatch

\* Lines a .vtt file and a .srt file are made of.
VttLineChoices ==
    { HeaderLine, IndexLine, VttCueLine, VttShortCueLine, TextLine, BlankLine, SpacesLine,
      << " " >> \o TextLine }
SrtLineChoices == { IndexLine, SrtCueLine, TextLine, BlankLine, SpacesLine }

InitParse ==
    /\ PipelineIdle
    /\ pc = "idle"
    /\ log = <<>>
    /\ args = NoArgs
    /\ scratch = <<>>
    /\ result = NoResult

\* _parse_vtt(path) for a file of the given lines
ParseVtt(lines) ==
    /\ pc = "idle"
    /\ args' = [ ext |-> "vtt", lines |-> lines ]
    /\ result' = parse_vtt(lines)
    /\ pc' = "done"
    /\ UNCHANGED << pipeline, log, scratch >>

\* The SRT branch of download_subtitles for a file of the given lines
ParseSrt(lines) ==
    /\ pc = "idle"
    /\ args' = [ ext |-> "srt", lines |-> lines ]
    /\ result' = parse_srt(lines)
    /\ pc' = "done"
    /\ UNCHANGED << pipeline, log, scratch >>

NextParse ==
    \/ \E lines \in SeqsUpTo(VttLineChoices, MaxLines) : ParseVtt(lines)
    \/ \E lines \in SeqsUpTo(SrtLineChoices, MaxLines) : ParseSrt(lines)

SpecParse == InitParse /\ [][NextParse]_vars

\* ------------------------------------------ subtitles.py: download_subtitles
\* Language codes a caller asks for, and the item the calls are made for.
LangCodes == { << "r", "u" >>, << "e", "n" >> }
DefaultLangs == << << "e", "n" >> >>
SubtitleVideoId == << "x" >>

VTT == << "v", "t", "t" >>
SRT == << "s", "r", "t" >>
WAV == << "w", "a", "v" >>
TXT == << "t", "x", "t" >>

\* f"{video_id}.{lang}.{ext}" and f"{video_id}.{ext}" (inside output_dir)
LangPath(video_id, lang, ext) == video_id \o << "." >> \o lang \o << "." >> \o ext
PlainPath(video_id, ext) == video_id \o << "." >> \o ext

\* Mutant: the file without a language in its name is looked for first.
CandidatesPlainFirst(video_id, lang) ==
    << PlainPath(video_id, VTT), LangPath(video_id, lang, VTT),
       PlainPath(video_id, SRT), LangPath(video_id, lang, SRT) >>

\* The list `candidates` of one language
Candidates(video_id, lang) ==
    << LangPath(video_id, lang, VTT), PlainPath(video_id, VTT),
       LangPath(video_id, lang, SRT), PlainPath(video_id, SRT) >>

\* The two nested for loops: the path of the first candidate that exists,
\* from language k on (None when the loops end without one)
RECURSIVE FindSubtitleFile(_, _, _, _)
FindSubtitleFile(dir, video_id, langs, k) ==
    IF k > Len(langs) THEN None
    ELSE LET c == Candidates(video_id, langs[k])
             found == { i \in 1..Len(c) : c[i] \in DOMAIN dir }
         IN  IF found = {} THEN FindSubtitleFile(dir, video_id, langs, k + 1)
             ELSE c[CHOOSE i \in found : \A j \in found : i <= j]

\* A file of the scratch directory: whether open() and the read succeed,
\* and its lines.
UnreadableFile == [ readable |-> FALSE, lines |-> <<>> ]

\* A caption file as the downloader writes it; its one text line spells the
\* path of the file.
CaptionFile(path) ==
    [ readable |-> TRUE,
      lines |-> IF EndsWith(path, << "." >> \o VTT)
                THEN << HeaderLine, BlankLine, IndexLine, VttCueLine, path >>
                ELSE << IndexLine, SrtCueLine, path, BlankLine >> ]

\* The plain-text output of the speech-to-text tool.
WhisperText == << "h", "i", "\n" >>
WhisperFile == [ readable |-> TRUE, lines |-> << WhisperText >> ]

\* The caption files the downloader can leave in the scratch directory.
CaptionPaths ==
    { LangPath(SubtitleVideoId, lang, ext) : lang \in LangCodes, ext \in {VTT, SRT} }
        \cup { PlainPath(SubtitleVideoId, ext) : ext \in {VTT, SRT} }

CaptionDirs ==
    UNION { [ paths -> {"readable", "unreadable"} ] : paths \in SUBSET CaptionPaths }

DirOf(choice) ==
    [ path \in DOMAIN choice |->
        IF choice[path] = "readable" THEN CaptionFile(path) ELSE UnreadableFile ]

\* dir with the file at path added or replaced
WithFile(dir, path, file) ==
    [ n \in (DOMAIN dir) \cup {path} |-> IF n = path THEN file ELSE dir[n] ]

\* What subprocess.run(cmd, check=True) does: it returns, raises
\* CalledProcessError (non-zero exit), or raises FileNotFoundError (no such
\* executable).
ToolOutcomes == { "ok", "nonzero", "not_found" }

\* An external call or a file read of download_subtitles.
ToolCall(tool, mode, lang_arg, outcome) ==
    [ op |-> tool, mode |-> mode, lang |-> lang_arg, path |-> None, outcome |-> outcome ]
FileRead(path, file) ==
    [ op |-> "open", mode |-> "r", lang |-> None, path |-> path,
      outcome |-> IF file.readable THEN "ok" ELSE "error" ]

\* The langs argument: a list, or None (the default) when not given.
LangsArgs ==
    { [ given |-> FALSE, list |-> <<>> ] }
        \cup { [ given |-> TRUE, list |-> l ] : l \in SeqsUpTo(LangCodes, MaxLangs) }

\* Lines 43-44: langs after `if langs is None: langs = ["en"]`
EffectiveLangs(a) == IF a.given THEN a.list ELSE DefaultLangs

\* Line 130: langs[0] if langs else "en"
WhisperLanguage(langs) == IF langs # <<>> THEN langs[1] ELSE << "e", "n" >>

InitSubtitles ==
    /\ PipelineIdle
    /\ pc = "idle"
    /\ log = <<>>
    /\ args = NoArgs
    /\ scratch = <<>>
    /\ result = NoResult

\* download_subtitles(video_id, langs, output_dir, use_audio_transcribe),
\* lines 43-48: the call and the default of langs
DownloadSubtitles(langs_arg, use_audio) ==
    /\ pc = "idle"
    /\ args' = [ video_id |-> SubtitleVideoId, langs |-> EffectiveLangs(langs_arg),
                 use_audio_transcribe |-> use_audio ]
    /\ pc' = "subs"
    /\ UNCHANGED << pipeline, log, scratch, result >>

\* Lines 51-66: the downloader is run for the captions.  A non-zero exit is
\* caught; a missing executable is not.  Whatever the exit status, the
\* scratch directory then holds some caption files (written now or left by
\* an earlier call), some of which may not be readable as UTF-8 text.
RunSubtitleDownload ==
    /\ pc = "subs"
    /\ \E outcome \in ToolOutcomes :
         /\ log' = Append(log, ToolCall("yt-dlp", "subs",
                                        Join(<< "," >>, args.langs), outcome))
         /\ IF outcome = "not_found"
            THEN pc' = "raised" /\ scratch' = scratch
            ELSE pc' = "search" /\ \E choice \in CaptionDirs : scratch' = DirOf(choice)
    /\ UNCHANGED << pipeline, args, result >>

\* Lines 70-97: the first candidate that exists is opened and parsed, and
\* its text returned; with no candidate the function goes on to the audio
\* fallback when use_audio_transcribe is set, and returns None otherwise.
FindSubtitles ==
    /\ pc = "search"
    /\ LET path == FindSubtitleFile(scratch, args.video_id, args.langs, 1)
       IN  IF path # None
           THEN /\ log' = Append(log, FileRead(path, scratch[path]))
                /\ IF scratch[path].readable
                   THEN /\ result' = IF EndsWith(Lower(path), << "." >> \o VTT)
                                     THEN parse_vtt(scratch[path].lines)
                                     ELSE parse_srt(scratch[path].lines)
                        /\ pc' = "done"
                   ELSE /\ result' = result
                        /\ pc' = "raised"
           ELSE /\ log' = log
                /\ IF args.use_audio_transcribe
                   THEN pc' = "audio" /\ result' = result
                   ELSE pc' = "done" /\ result' = None
    /\ UNCHANGED << pipeline, args, scratch >>


\* Lines 100-120: the audio track is downloaded with the downloader that
\* line 64 has just run (so the executable exists): a non-zero exit returns
\* None, and so does a run that leaves no {video_id}.wav.
RunAudioDownload ==
    /\ pc = "audio"
    /\ \E outcome \in {"ok", "nonzero"}, wav \in BOOLEAN :
         /\ log' = Append(log, ToolCall("yt-dlp", "audio", None, outcome))
         /\ scratch' = IF wav
                       THEN WithFile(scratch, PlainPath(args.video_id, WAV),
                                     [ readable |-> TRUE, lines |-> <<>> ])
                       ELSE scratch
         /\ IF outcome = "ok" /\ wav
            THEN pc' = "whisper" /\ result' = result
            ELSE pc' = "done" /\ result' = None
    /\ UNCHANGED << pipeline, args >>

\* Lines 122-145: the speech-to-text tool is run on the audio file for the
\* first language; when it exits with zero and {video_id}.txt exists, the
\* file is read and returned whole.  A non-zero exit and a missing output
\* return None; a missing executable and an unreadable output are not
\* caught.
RunWhisper ==
    /\ pc = "whisper"
    /\ \E outcome \in ToolOutcomes, txt \in {"absent", "readable", "unreadable"} :
         LET language == WhisperLanguage(args.langs)
             txt_out == PlainPath(args.video_id, TXT)
             file == IF txt = "readable" THEN WhisperFile ELSE UnreadableFile
         IN  IF outcome # "ok"
             THEN /\ log' = Append(log, ToolCall("whisper", "txt", language, outcome))
                  /\ scratch' = scratch
                  /\ IF outcome = "not_found"
                     THEN pc' = "raised" /\ result' = result
                     ELSE pc' = "done" /\ result' = None
             ELSE IF txt = "absent"
                  THEN /\ log' = Append(log, ToolCall("whisper", "txt", language, outcome))
                       /\ scratch' = scratch
                       /\ pc' = "done" /\ result' = None
                  ELSE /\ log' = log \o << ToolCall("whisper", "txt", language, outcome),
                                            FileRead(txt_out, file) >>
                       /\ scratch' = WithFile(scratch, txt_out, file)
                       /\ IF file.readable
                          THEN pc' = "done" /\ result' = Join(<< "\n" >>, file.lines)
                          ELSE pc' = "raised" /\ result' = result
    /\ UNCHANGED << pipeline, args >>

NextSubtitles ==
    \/ \E langs_arg \in LangsArgs, use_audio \in BOOLEAN :
          DownloadSubtitles(langs_arg, use_audio)
    \/ RunSubtitleDownload
    \/ FindSubtitles
    \/ RunAudioDownload
    \/ RunWhisper

SpecSubtitles == InitSubtitles /\ [][NextSubtitles]_vars

\* ------------------------------- youtube_monitor.py: get_video_transcript
\* Texts of caption segments; a segment is a dict with its text (and its
\* start and duration, which get_video_transcript does not read).
SegmentTexts ==
    { << "H", "i" >>, << "W" >>, <<>>, << "a", " ", "b" >> }
Segment(text) == [ text |-> text ]
SegmentLists == SeqsUpTo({ Segment(t) : t \in SegmentTexts }, MaxSegments)

\* What YouTubeTranscriptApi.get_transcript(video_id) does: it returns a
\* list of segments or raises (captions disabled, no transcript in the
\* language, quota, network).
ProviderFailures == { "TranscriptsDisabled", "NoTranscriptFound", "RequestBlocked" }
ProviderOutcomes ==
    { [ raised |-> FALSE, error |-> "none", segments |-> l ] : l \in SegmentLists }
        \cup { [ raised |-> TRUE, error |-> e, segments |-> <<>> ] : e \in ProviderFailures }

\* [entry['text'] for entry in transcript_list]
TextsOf(transcript_list) ==
    [ k \in 1..Len(transcript_list) |-> transcript_list[k].text ]

\* Mutant: the segments are joined as lines.
TranscriptOfAsLines(outcome) ==
    IF outcome.raised THEN None
    ELSE Join(<< "\n" >>, TextsOf(outcome.segments))

\* Lines 91-98: the value get_video_transcript returns for what the
\* provider did
TranscriptOf(outcome) ==
    IF outcome.raised THEN None
    ELSE Join(<< " " >>, TextsOf(outcome.segments))

InitMonitor ==
    /\ PipelineIdle
    /\ pc = "idle"
    /\ log = <<>>
    /\ args = NoArgs
    /\ scratch = <<>>
    /\ result = NoResult

\* YouTubeMonitor.get_video_transcript(video_id): the provider is called
\* once, inside the try
GetVideoTranscript(video_id) ==
    /\ pc = "idle"
    /\ \E outcome \in ProviderOutcomes :
         /\ log' = Append(log, [ op |-> "get_transcript", id |-> video_id,
                                 outcome |-> outcome ])
         /\ result' = TranscriptOf(outcome)
    /\ args' = [ video_id |-> video_id ]
    /\ pc' = "done"
    /\ UNCHANGED << pipeline, scratch >>

NextMonitor == \E video_id \in VideoIds : GetVideoTranscript(video_id)

SpecMonitor == InitMonitor /\ [][NextMonitor]_vars

\* ------------------------ youtube_monitor.py: get_videos_with_transcripts
\* An item of the uploads playlist; its id is fixed by its position.
PlaylistItem(k) ==
    [ videoId |-> VideoIdAt(k), title |-> << "t" >>,
      publishedAt |-> [ clock |-> Now0, zone |-> "Z" ] ]
Playlists == { [ k \in 1..n |-> PlaylistItem(k) ] : n \in 0..MaxItems }

\* What the directory does for one channel id: channels().list raises,
\* answers without items, or answers with the channel; then
\* playlistItems().list raises or answers with the items of the playlist.
DirectoryOutcomes ==
    { [ channels |-> c, playlist |-> "none", items |-> <<>> ] : c \in { "raised", "empty" } }
        \cup { [ channels |-> "found", playlist |-> "raised", items |-> <<>> ] }
        \cup { [ channels |-> "found", playlist |-> "ok", items |-> l ] : l \in Playlists }

\* Lines 61-72: the dicts built from the items of the playlist
RecentVideos(channel_id, items) ==
    [ k \in 1..Len(items) |->
        [ video_id     |-> items[k].videoId,
          title        |-> items[k].title,
          published_at |-> items[k].publishedAt,
          channel_id   |-> channel_id ] ]

\* Mutant: an exception of the directory leaves get_recent_videos.
GetRecentVideosUncaught(channel_id, outcome) ==
    IF outcome.channels = "raised" \/ outcome.playlist = "raised"
    THEN [ raised |-> TRUE, videos |-> <<>> ]
    ELSE IF outcome.channels = "empty"
    THEN [ raised |-> FALSE, videos |-> <<>> ]
    ELSE [ raised |-> FALSE, videos |-> RecentVideos(channel_id, outcome.items) ]

\* YouTubeMonitor.get_recent_videos(channel_id): the whole body is inside
\* try ... except Exception: return []
get_recent_videos(channel_id, outcome) ==
    IF outcome.channels = "raised" \/ outcome.playlist = "raised"
    THEN [ raised |-> FALSE, videos |-> <<>> ]
    ELSE IF outcome.channels = "empty"
    THEN [ raised |-> FALSE, videos |-> <<>> ]
    ELSE [ raised |-> FALSE, videos |-> RecentVideos(channel_id, outcome.items) ]

\* The provider outcomes explored for the videos of a channel: it raises,
\* it returns no segment, it returns one segment.
PollOutcomes ==
    { o \in ProviderOutcomes :
        \/ o.raised /\ o.error = "TranscriptsDisabled"
        \/ ~o.raised /\ o.segments \in { <<>>, << Segment(<< "H", "i" >>) >> } }

\* Lines 116-120: `if transcript:` keeps a video whose transcript is neither
\* None nor the empty string
RECURSIVE VideosWithTranscripts(_, _, _)
VideosWithTranscripts(channel_videos, outcomes, k) ==
    IF k > Len(channel_videos) THEN <<>>
    ELSE LET transcript == TranscriptOf(outcomes[k])
             video == [ video_id     |-> channel_videos[k].video_id,
                        title        |-> channel_videos[k].title,
                        published_at |-> channel_videos[k].published_at,
                        channel_id   |-> channel_videos[k].channel_id,
                        transcript   |-> transcript ]
         IN  IF transcript # None /\ transcript # <<>>
             THEN << video >> \o VideosWithTranscripts(channel_videos, outcomes, k + 1)
             ELSE VideosWithTranscripts(channel_videos, outcomes, k + 1)

ChannelIdLists == SeqsUpTo(Channels, MaxChannels)

InitPoll ==
    /\ PipelineIdle
    /\ pc = "idle"
    /\ log = <<>>
    /\ args = NoArgs
    /\ scratch = <<>>
    /\ result = NoResult

\* get_videos_with_transcripts(channel_ids): all_videos = []
GetVideosWithTranscripts(channel_ids) ==
    /\ pc = "idle"
    /\ args' = [ channel_ids |-> channel_ids ]
    /\ scratch' = <<>>
    /\ idx' = 1
    /\ pc' = "poll"
    /\ UNCHANGED << program, feed, now, files, videos, loop_closed, calls, fn, channel_name,
                    days, prompt_cfg, todo, v, dispatch, log, result >>

\* One turn of the loop over channel_ids: get_recent_videos, then the
\* transcript of each of its videos; scratch is all_videos.
PollChannel ==
    /\ pc = "poll"
    /\ idx <= Len(args.channel_ids)
    /\ \E outcome \in DirectoryOutcomes :
         LET channel_id == args.channel_ids[idx]
             recent == get_recent_videos(channel_id, outcome)
         IN  IF recent.raised
             THEN /\ pc' = "raised"
                  /\ log' = Append(log, [ op |-> "get_recent_videos", id |-> channel_id,
                                          outcome |-> outcome, transcripts |-> <<>> ])
                  /\ UNCHANGED << scratch, idx >>
             ELSE \E outcomes \in [ 1..Len(recent.videos) -> PollOutcomes ] :
                    /\ scratch' = scratch \o VideosWithTranscripts(recent.videos, outcomes, 1)
                    /\ log' = Append(log, [ op |-> "get_recent_videos", id |-> channel_id,
                                            outcome |-> outcome, transcripts |-> outcomes ])
                    /\ idx' = idx + 1
                    /\ pc' = "poll"
    /\ UNCHANGED << program, feed, now, files, videos, loop_closed, calls, fn, channel_name,
                    days, prompt_cfg, todo, v, dispatch, args, result >>

\* return all_videos
ReturnAllVideos ==
    /\ pc = "poll"
    /\ idx > Len(args.channel_ids)
    /\ result' = scratch
    /\ pc' = "done"
    /\ UNCHANGED << program, feed, now, files, videos, loop_closed, calls, fn, channel_name,
                    days, prompt_cfg, todo, idx, v, dispatch, log, args, scratch >>

NextPoll ==
    \/ \E channel_ids \in ChannelIdLists : GetVideosWithTranscripts(channel_ids)
    \/ PollChannel
    \/ ReturnAllVideos

SpecPoll == InitPoll /\ [][NextPoll]_vars

\* ----------------------------------------------------------- ai_summarizer.py
\* max_chars = 12000
max_chars == 12000
\* max_tokens=800 of the completion request
max_tokens == 800

\* The marker appended to a truncated text.
Ellipsis == << ".", ".", "." >>

\* Mutant: the text is cut without a marker.
TruncateSilently(text) ==
    IF Len(text) > max_chars THEN SubSeq(text, 1, max_chars) ELSE text

\* Mutant: a text of exactly max_chars characters is treated as too long.
TruncateAtBudget(text) ==
    IF Len(text) >= max_chars THEN SubSeq(text, 1, max_chars) \o Ellipsis ELSE text

\* Lines 43-46: text after `if len(text) > max_chars: text = text[:max_chars] + "..."`
Truncate(text) ==
    IF Len(text) > max_chars THEN SubSeq(text, 1, max_chars) \o Ellipsis ELSE text

\* str(n) of the two word limits used
StrOfInt(n) == IF n = 500 THEN << "5", "0", "0" >> ELSE << "1", "0", "0" >>

\* Lines 48-54: the f-string of the user message, as the literal parts and
\* the characters of the interpolated values
PromptHead(max_length) ==
    << "Please provide a concise summary of the following video transcript. \n",
       "The summary should be no more than " >>
        \o StrOfInt(max_length)
        \o << " words and should capture the main points and key takeaways.\n\nTranscript:\n" >>
PromptTail == << "\n\nSummary:" >>
Prompt(text, max_length) == PromptHead(max_length) \o text \o PromptTail

SystemMessage ==
    << "You are a helpful assistant that creates concise and informative summaries of video transcripts." >>

\* The request of lines 56-64
CompletionRequest(text, max_length) ==
    [ model |-> "gpt-3.5-turbo",
      messages |-> << [ role |-> "system", content |-> SystemMessage ],
                      [ role |-> "user", content |-> Prompt(Truncate(text), max_length) ] >>,
      max_tokens |-> max_tokens ]

\* What client.chat.completions.create does: it returns a response with a
\* message content, a response with content None or with no choices
\* (malformed), or raises (rate limit, network).
CompletionContents == { << "s" >>, << " ", "s", "\n" >>, << " " >>, <<>> }
CompletionOutcomes ==
    { [ kind |-> "response", content |-> c ] : c \in CompletionContents }
        \cup { [ kind |-> k, content |-> <<>> ] :
                 k \in { "content_none", "no_choices", "RateLimitError", "APIConnectionError" } }

\* Lines 66-72: response.choices[0].message.content.strip(), or None when
\* anything inside the try raised
SummaryOf(outcome) ==
    IF outcome.kind = "response" THEN Strip(outcome.content) ELSE None

\* Texts given to summarize: "a" up to max_chars characters and the given
\* character beyond.
TextOfLen(n, beyond) == [ k \in 1..n |-> IF k <= max_chars THEN "a" ELSE beyond ]
SummarizeTexts ==
    { TextOfLen(n, c) :
        n \in { 0, 1, max_chars - 1, max_chars, max_chars + 1, max_chars + 3, max_chars + 3000 },
        c \in { "a", "z" } }

\* f"https://www.youtube.com/watch?v={video_info['video_id']}"
VideoUrl(video_id) == << "https://www.youtube.com/watch?v=" >> \o video_id

\* Mutant: the link is built from the title.
FormattedSummaryTitleLink(video_info, summary) ==
    << "\\U0001F4F9 *" >> \o video_info.title \o << "*", "\n", "\n" >>
        \o summary
        \o << "\n", "\n", "\\U0001F517 [Watch Video](" >> \o VideoUrl(video_info.title)
        \o << ")", "\n" >>

\* Lines 91-97: formatted_summary
FormattedSummary(video_info, summary) ==
    << "\\U0001F4F9 *" >> \o video_info.title \o << "*", "\n", "\n" >>
        \o summary
        \o << "\n", "\n", "\\U0001F517 [Watch Video](" >> \o VideoUrl(video_info.video_id)
        \o << ")", "\n" >>

\* The dicts given to summarize_video: with and without a transcript.
VideoInfos ==
    [ video_id : VideoIds, title : Titles ]
        \cup [ video_id : VideoIds, title : Titles,
               transcript : { << "a" >>, TextOfLen(max_chars + 1, "z") } ]

\* A call of client.chat.completions.create: the request, what the provider
\* did, and what summarize returns for it.
CreateCall(text, max_length, outcome) ==
    [ op |-> "create", request |-> CompletionRequest(text, max_length),
      outcome |-> outcome, returned |-> SummaryOf(outcome) ]

InitSummarizer ==
    /\ PipelineIdle
    /\ pc = "idle"
    /\ log = <<>>
    /\ args = NoArgs
    /\ scratch = <<>>
    /\ result = NoResult

\* Mutant: a failed request is made once more.
SummarizeTextRetrying(text, max_length) ==
    /\ pc = "idle"
    /\ \E first, second \in CompletionOutcomes :
         IF SummaryOf(first) # None
         THEN /\ log' = Append(log, CreateCall(text, max_length, first))
              /\ result' = SummaryOf(first)
         ELSE /\ log' = log \o << CreateCall(text, max_length, first),
                                   CreateCall(text, max_length, second) >>
              /\ result' = SummaryOf(second)
    /\ args' = [ fn |-> "summarize", text |-> text, max_length |-> max_length ]
    /\ pc' = "done"
    /\ UNCHANGED << pipeline, scratch >>

\* AISummarizer.summarize(text, max_length): one request inside the try; its
\* stripped content is returned, or None when anything raised
SummarizeText(text, max_length) ==
    /\ pc = "idle"
    /\ \E outcome \in CompletionOutcomes :
         /\ log' = Append(log, CreateCall(text, max_length, outcome))
         /\ result' = SummaryOf(outcome)
    /\ args' = [ fn |-> "summarize", text |-> text, max_length |-> max_length ]
    /\ pc' = "done"
    /\ UNCHANGED << pipeline, scratch >>

\* AISummarizer.summarize_video(video_info): None without a 'transcript'
\* key; otherwise summarize(video_info['transcript']) with the default
\* max_length, and the formatted text when the summary is truthy
SummarizeVideo(video_info) ==
    /\ pc = "idle"
    /\ IF "transcript" \notin DOMAIN video_info
       THEN /\ log' = log
            /\ result' = None
       ELSE \E outcome \in CompletionOutcomes :
              LET summary == SummaryOf(outcome)
              IN  /\ log' = Append(log, CreateCall(video_info.transcript, 500, outcome))
                  /\ result' = IF summary # None /\ summary # <<>>
                               THEN FormattedSummary(video_info, summary)
                               ELSE None
    /\ args' = [ fn |-> "summarize_video", video_info |-> video_info ]
    /\ pc' = "done"
    /\ UNCHANGED << pipeline, scratch >>

NextSummarizer ==
    \/ \E text \in SummarizeTexts, max_length \in {500, 100} : SummarizeText(text, max_length)
    \/ \E video_info \in VideoInfos : SummarizeVideo(video_info)

SpecSummarizer == InitSummarizer /\ [][NextSummarizer]_vars

\* ======================================================================
\* The claims
\* ======================================================================
LogIdx == 1..Len(log)

\* The instant (UTC seconds) an ISO-8601 timestamp names.
Instant(p) ==
    CASE p.zone = "Z"      -> p.clock
      [] p.zone = "+00:00" -> p.clock
      [] p.zone = "+01:00" -> p.clock - 3600

\* Events of the same item in the same orchestrator call.
SameItem(p, q) == log[p].call = log[q].call /\ log[p].id = log[q].id

\* The ids of the items the current call iterates over.
TodoIds == { todo[k].video_id : k \in 1..Len(todo) }

\* run_for_channel has just filtered its batch: the clock still reads what
\* it read when the filter ran.
AtFilterTime ==
    /\ fn = "run_for_channel"
    /\ \/ todo = <<>>
       \/ pc = "get_transcript" /\ idx = 1

\* Item k of the batch has a description and is not older than the cutoff of
\* the current call.
PassesOther(k) ==
    /\ feed[k].description # <<>>
    /\ Instant(feed[k].publishedAt) >= now - days * DaySeconds

\* ---------------------------------------------------------------------- C1
\* C1 (as claimed, violated by the code): a dispatch makes up to 5 delivery
\* attempts and stops at the first successful one: the attempts before the
\* last one failed, the result is the outcome of the last attempt, and a
\* dispatch reports failure only after exactly 5 failed attempts.
C1_DispatchRetriesUpToFive ==
    pc = "sleep" =>
        /\ dispatch.attempts \in 1..5
        /\ \A k \in 1..(dispatch.attempts - 1) : ~dispatch.outcomes[k]
        /\ dispatch.delivered = dispatch.outcomes[dispatch.attempts]
        /\ ~dispatch.delivered => dispatch.attempts = 5

C3_RecencyFilter ==
    /\ \A k \in 1..Len(feed), d \in {1, 2} :
          out_of_date(FetchVideos(<<"a">>)[k], d, now)
              <=> (Instant(feed[k].publishedAt) < now - d * DaySeconds)
    /\ AtFilterTime =>
          \A k \in 1..Len(feed) :
              /\ VideoIdAt(k) \in TodoIds
                    => Instant(feed[k].publishedAt) >= now - days * DaySeconds
              /\ ( /\ Instant(feed[k].publishedAt) >= now - days * DaySeconds
                   /\ feed[k].description # <<>>
                   /\ \A j \in 1..(k - 1) : feed[j].title # feed[k].title )
                    => VideoIdAt(k) \in TodoIds
    /\ (fn = "search_channel_videos" /\ pc = "get_transcript") =>
          /\ Instant(todo[idx].publishedAt) >= now - days * DaySeconds
          /\ (\A p \in LogIdx : log[p].call # calls) =>
                \A j \in 1..(idx - 1) :
                    Instant(todo[j].publishedAt) < now - days * DaySeconds

\* C3 witness: a batch with an item published exactly at the cutoff, which is
\* processed, and an item one second older, which is not.
C3_Witness ==
    /\ AtFilterTime
    /\ \E j, k \in 1..Len(feed) :
          /\ Instant(feed[k].publishedAt) = now - days * DaySeconds
          /\ VideoIdAt(k) \in TodoIds
          /\ Instant(feed[j].publishedAt) = now - days * DaySeconds - 1
          /\ feed[j].description # <<>>
          /\ feed[j].title # feed[k].title
          /\ VideoIdAt(j) \notin TodoIds

\* ---------------------------------------------------------------------- C4
TranscriptMissing(p) ==
    log[p].op = "get_video_transcript" /\ log[p].transcript = None

C5_NoNotificationWithoutSummary ==
    \A p, q \in LogIdx :
        (log[p].op = "summarize" /\ log[p].summary = None /\ SameItem(p, q))
            => log[q].op # "send_message"

\* ---------------------------------------------------------------------- C6
\* C6 (as claimed, violated by the code): by the end of the processing of an
\* item that was notified, its record was saved before the dispatch, holding
\* the summary, and saved again after the dispatch.
C6_SavedBeforeAndAfterDispatch ==
    \A p \in LogIdx :
        (log[p].op = "sleep" /\ log[p].fn \in LangFns) =>
            \E q, r, s \in LogIdx :
                /\ q < r /\ r < s /\ s <= p
                /\ SameItem(p, q) /\ SameItem(p, r) /\ SameItem(p, s)
                /\ log[q].op = "save" /\ log[q].summary = log[r].summary
                /\ log[r].op = "send_message"
                /\ log[s].op = "save"

\* ---------------------------------------------------------------------- C7
\* C7 (as claimed, violated by the code): when the summarizer is about to be
\* called for an item, the cache record of the item holds its transcript.
C7_TranscriptSavedBeforeSummarize ==
    (pc = "summarize" /\ fn \in LangFns /\ prompt_cfg # NoPromptConfig) =>
        /\ FileExists(files, channel_name, v.video_id)
        /\ LoadVideoFromFile(files, channel_name, v.video_id).transcript = v.transcript

\* ---------------------------------------------------------------------- C8
\* C8: loading by the key an item was just saved under returns a dict equal
\* to the saved one in every field, whatever record the file held before.
C8_CacheRoundTrip ==
    pc = "loaded" =>
        /\ DOMAIN v = DOMAIN todo[1]
        /\ \A k \in DOMAIN v : v[k] = todo[1][k]

\* C8 witness: an item whose transcript holds a quote and a backslash and
\* whose summary is absent was saved over a record of the same key that held
\* a summary, and was loaded again.
C8_Witness ==
    /\ pc = "loaded"
    /\ v.transcript = <<QUOTE, BACKSLASH>>
    /\ v.summary = None
    /\ Len(log) = 2
    /\ log[1].channel = log[2].channel /\ log[1].id = log[2].id
    /\ log[1].summary # None

\* ---------------------------------------------------------------------- C9
\* C9 (as claimed, violated by the code): a _run_for_channel call whose
\* loaded record holds a transcript makes no transcript fetch and works on
\* the cached transcript.
C9_ResumeDoesNotRefetch ==
    (fn = "_run_for_channel" /\ todo # <<>> /\ todo[1].transcript # None) =>
        /\ pc # "get_transcript"
        /\ \A p \in LogIdx : log[p].call = calls => log[p].op # "get_video_transcript"
        /\ pc \in {"summarize", "notify", "sleep"} => v.transcript = todo[1].transcript

\* --------------------------------------------------------------------- C10
\* C10: every notification dispatch is followed by the delay, whatever the
\* dispatch returned; the delay is 10 time units, is paid once per notified
\* item before the next item starts or the call returns, and is paid at no
\* other point.
C10_DelayAfterEveryDispatch ==
    /\ [](\A p \in LogIdx :
            /\ log[p].op = "send_message" =>
                  IF p = Len(log) THEN pc = "sleep"
                  ELSE log[p + 1].op = "sleep" /\ SameItem(p, p + 1)
            /\ log[p].op = "sleep" =>
                  /\ p > 1
                  /\ log[p - 1].op = "send_message"
                  /\ SameItem(p, p - 1)
                  /\ \A q \in LogIdx : (SameItem(p, q) /\ log[q].op = "sleep") => q = p)
    /\ [][ /\ pc = "sleep" =>
                /\ now' = now + 10
                /\ Len(log') = Len(log) + 1
                /\ log'[Len(log')].op = "sleep"
                /\ log'[Len(log')].id = v.video_id
                /\ pc' \in {"idle", "get_transcript"}
           /\ pc # "sleep" => now' = now
           /\ (pc = "notify" /\ pc' # "raised") =>
                /\ pc' = "sleep"
                /\ dispatch'.attempts >= 1 ]_vars

\* C10 witness: a dispatch has just reported failure and the delay is due;
\* the delay was paid for an item notified earlier, and an item without a
\* transcript was dropped without one.
C10_Witness ==
    /\ pc = "sleep"
    /\ ~dispatch.delivered
    /\ \E p \in LogIdx : log[p].op = "sleep"
    /\ \E p \in LogIdx : TranscriptMissing(p)

\* --------------------------------------------------------------------- C11
\* C11: a delivery the provider fails is reported by send_message as False
\* and never as an exception; after a failed delivery the call goes on to
\* its next item or returns, and in LangAgent the cache record of the item
\* holds the summary the item has.
C11_FailedDeliveryIsFalseAndRunContinues ==
    /\ [](pc = "sleep" =>
            /\ ~dispatch.raised
            /\ dispatch.delivered = dispatch.outcomes[Len(dispatch.outcomes)]
            /\ (~dispatch.delivered /\ fn \in LangFns) =>
                  /\ FileExists(files, channel_name, v.video_id)
                  /\ LoadVideoFromFile(files, channel_name, v.video_id).summary = v.summary)
    /\ [][ /\ (pc = "notify" /\ ~(fn = "_run_for_channel" /\ loop_closed)) =>
                /\ pc' = "sleep"
                /\ ~dispatch'.raised
           /\ (pc = "sleep" /\ ~dispatch.delivered) =>
                /\ pc' \in {"idle", "get_transcript"}
                /\ idx' > idx
                /\ pc' = "get_transcript" => (idx' <= Len(todo) /\ v'.video_id # v.video_id)
                /\ pc' = "idle" => idx' > Len(todo)
                /\ files' = files ]_vars

\* C11 witness: run_for_channel was told by send_message that the delivery
\* of its first item failed; the item has a summary, the record on disk
\* holds it, and a second item waits.
C11_Witness ==
    /\ fn = "run_for_channel"
    /\ pc = "sleep"
    /\ ~dispatch.delivered
    /\ dispatch.outcomes = << FALSE >>
    /\ v.summary # None
    /\ idx = 1 /\ Len(todo) = 2
    /\ LoadVideoFromFile(files, channel_name, v.video_id).summary = v.summary

\* --------------------------------------------------------------------- C12
\* C12 (as claimed, violated by the code): download_subtitles never raises
\* to its caller: whatever the downloader and the speech-to-text tool do
\* (non-zero exit, executable not found, no file written, unreadable file),
\* the call ends by returning a transcript text or None.
C12_DownloadSubtitlesNeverRaises ==
    pc \in {"done", "raised"} =>
        /\ pc = "done"
        /\ (result = None \/ \A k \in 1..Len(result) : result[k] # "None")

\* --------------------------------------------------------------------- C13
\* Position of the first character of segment k in the joined text.
RECURSIVE SegmentStart(_, _)
SegmentStart(segments, k) ==
    IF k = 1 THEN 1
    ELSE SegmentStart(segments, k - 1) + Len(segments[k - 1].text) + 1

\* C13: get_video_transcript calls the captions provider exactly once, with
\* the video id; when the provider returns segments the result is their
\* texts in order, separated by single spaces and nothing else; when the
\* provider fails the result is None and nothing is raised.
C13_TranscriptIsSegmentsJoinedBySpaces ==
    pc \in {"done", "raised"} =>
        /\ pc = "done"
        /\ Len(log) = 1
        /\ log[1].op = "get_transcript"
        /\ log[1].id = args.video_id
        /\ LET outcome == log[1].outcome
               n == Len(outcome.segments)
           IN  IF outcome.raised THEN result = None
               ELSE /\ result # None
                    /\ \A k \in 1..n :
                          /\ SubSeq(result, SegmentStart(outcome.segments, k),
                                    SegmentStart(outcome.segments, k + 1) - 2)
                                = outcome.segments[k].text
                          /\ k < n => result[SegmentStart(outcome.segments, k + 1) - 1] = " "
                    /\ Len(result) = IF n = 0 THEN 0
                                     ELSE SegmentStart(outcome.segments, n + 1) - 2

\* C13 witness: the provider returned the segments "Hi" and "W" and the
\* result is "Hi W".
C13_Witness ==
    /\ pc = "done"
    /\ ~log[1].outcome.raised
    /\ TextsOf(log[1].outcome.segments) = << << "H", "i" >>, << "W" >> >>
    /\ result = << "H", "i", " ", "W" >>

\* C13 witness of the failure case: the provider raised and the result is
\* None.
C13_WitnessFailure ==
    /\ pc = "done"
    /\ log[1].outcome.raised
    /\ result = None

\* --------------------------------------------------------------------- C14
\* The candidates in the order of the claim: for each language in turn
\* {id}.{lang}.vtt, {id}.vtt, {id}.{lang}.srt, {id}.srt.
RECURSIVE CandidateOrder(_, _)
CandidateOrder(id, langs) ==
    IF langs = <<>> THEN <<>>
    ELSE << id \o << "." >> \o Head(langs) \o << ".", "v", "t", "t" >>,
            id \o << ".", "v", "t", "t" >>,
            id \o << "." >> \o Head(langs) \o << ".", "s", "r", "t" >>,
            id \o << ".", "s", "r", "t" >> >>
         \o CandidateOrder(id, Tail(langs))

\* The reads of caption files made so far.
CaptionReads == { p \in LogIdx : log[p].op = "open" /\ log[p].path \in CaptionPaths }

\* The search for a caption file has run.
Searched == pc \in {"audio", "whisper", "done", "raised"}

\* C14: when the search of download_subtitles has run, the file it read is
\* the first existing candidate in the order (for each language in turn)
\* {id}.{lang}.vtt, {id}.vtt, {id}.{lang}.srt, {id}.srt; no candidate of an
\* earlier language exists when a file of a later language is read; exactly
\* one file is read, and the text returned is the text of that file; with no
\* candidate no caption file is read.
C14_FirstCandidateInPriorityOrderWins ==
    Searched =>
        LET order == CandidateOrder(args.video_id, args.langs)
            existing == { i \in 1..Len(order) : order[i] \in DOMAIN scratch }
        IN  IF existing = {} THEN CaptionReads = {}
            ELSE LET first == CHOOSE i \in existing : \A j \in existing : i <= j
                 IN  /\ Cardinality(CaptionReads) = 1
                     /\ \A p \in CaptionReads : log[p].path = order[first]
                     /\ \A i \in 1..(4 * ((first - 1) \div 4)) : order[i] \notin DOMAIN scratch
                     /\ scratch[order[first]].readable =>
                           /\ pc = "done"
                           /\ result = order[first]

\* C14 witness: langs is [ru, en]; the directory holds x.en.vtt and
\* x.ru.srt and no other candidate of ru, and the text of x.ru.srt was
\* returned.
C14_Witness ==
    /\ pc = "done"
    /\ args.langs = << << "r", "u" >>, << "e", "n" >> >>
    /\ DOMAIN scratch = { LangPath(SubtitleVideoId, << "e", "n" >>, VTT),
                          LangPath(SubtitleVideoId, << "r", "u" >>, SRT) }
    /\ result = << "x", ".", "r", "u", ".", "s", "r", "t" >>

\* --------------------------------------------------------------------- C15
\* A line that is not spoken text: blank, a numeric cue index, a timing line
\* (it contains "-->"), or the format header.
Contains(s, part) ==
    \E k \in 1..(Len(s) - Len(part) + 1) : SubSeq(s, k, k + Len(part) - 1) = part
NotSpoken(line) ==
    \/ Strip(line) = <<>>
    \/ IsDigit(Strip(line))
    \/ Contains(line, << "-", "-", ">" >>)
    \/ StartsWith(Strip(line), WEBVTT)

RECURSIVE SpokenLines(_)
SpokenLines(lines) ==
    IF lines = <<>> THEN <<>>
    ELSE IF NotSpoken(Head(lines)) THEN SpokenLines(Tail(lines))
         ELSE << Strip(Head(lines)) >> \o SpokenLines(Tail(lines))

\* The text a parser returned, cut at the newlines.
RECURSIVE SplitLines(_)
SplitLines(text) ==
    IF \A k \in 1..Len(text) : text[k] # "\n" THEN << text >>
    ELSE LET k == CHOOSE i \in 1..Len(text) :
                      text[i] = "\n" /\ \A j \in 1..(i - 1) : text[j] # "\n"
         IN  << SubSeq(text, 1, k - 1) >> \o SplitLines(SubSeq(text, k + 1, Len(text)))

\* C15 (as claimed, violated by the code): parsing a caption file returns
\* exactly its spoken-text lines in file order, joined by newlines; header
\* lines, numeric index lines, timing lines containing "-->" and blank lines
\* are discarded and every spoken-text line is kept.
C15_ParseKeepsExactlySpokenLines ==
    pc = "done" =>
        IF SpokenLines(args.lines) = <<>> THEN result = <<>>
        ELSE SplitLines(result) = SpokenLines(args.lines)

\* --------------------------------------------------------------------- C16
AudioCalls == { p \in LogIdx : log[p].op = "yt-dlp" /\ log[p].mode = "audio" }
WhisperCalls == { p \in LogIdx : log[p].op = "whisper" }

\* C16 (as claimed, violated by the code): the audio download and the
\* speech-to-text tool are invoked only when no caption file was found and
\* use_audio_transcribe is true; the tool is configured with the first
\* requested language; and when a step fails (audio download fails, audio
\* file missing, transcription fails, output text file missing) the call
\* returns None.
C16_AudioFallbackGatedAndAbsentOnFailure ==
    /\ (AudioCalls \cup WhisperCalls # {}) =>
          /\ args.use_audio_transcribe
          /\ \A i \in 1..Len(CandidateOrder(args.video_id, args.langs)) :
                CandidateOrder(args.video_id, args.langs)[i] \notin DOMAIN scratch
    /\ \A p \in WhisperCalls :
          /\ AudioCalls # {}
          /\ args.langs # <<>> => log[p].lang = args.langs[1]
    /\ \A p \in AudioCalls :
          (log[p].outcome # "ok" \/ PlainPath(args.video_id, WAV) \notin DOMAIN scratch)
              => (pc = "done" /\ result = None)
    /\ \A p \in WhisperCalls :
          (log[p].outcome # "ok" \/ PlainPath(args.video_id, TXT) \notin DOMAIN scratch)
              => (pc = "done" /\ result = None)

\* --------------------------------------------------------------------- C17
\* The provider calls made so far.
CreateCalls == { p \in LogIdx : log[p].op = "create" }

\* The text the call in progress gave to summarize.
SummarizedText ==
    IF args.fn = "summarize" THEN args.text ELSE args.video_info.transcript

\* summarize was called by the call that has returned.
SummarizeCalled ==
    /\ pc = "done"
    /\ args.fn = "summarize" \/ "transcript" \in DOMAIN args.video_info

\* C17: a call of summarize makes exactly one call to the text-completion
\* provider, whatever the provider does, and returns None (raising nothing)
\* when the provider raised or its response was malformed.
C17_SummarizeNoneOnErrorAndOneCall ==
    SummarizeCalled =>
        /\ Cardinality(CreateCalls) = 1
        /\ Len(log) = 1
        /\ log[1].outcome.kind # "response" => log[1].returned = None
        /\ log[1].outcome.kind = "response" => log[1].returned # None
        /\ args.fn = "summarize" => result = log[1].returned

\* C17 witness: the provider raised a rate-limit error; summarize made that
\* one call and returned None.
C17_Witness ==
    /\ pc = "done"
    /\ args.fn = "summarize"
    /\ Len(log) = 1
    /\ log[1].outcome.kind = "RateLimitError"
    /\ result = None

\* --------------------------------------------------------------------- C18
\* The body of a request: the user message without the fixed text before
\* and after the interpolated transcript.
SubmittedBody(p) ==
    LET content == log[p].request.messages[2].content
        max_length == IF args.fn = "summarize" THEN args.max_length ELSE 500
    IN  SubSeq(content, Len(PromptHead(max_length)) + 1, Len(content) - Len(PromptTail))

\* C18 (as claimed, violated by the code): the body submitted to the
\* provider is a prefix of the input of length at most the budget, and
\* equals the input when the input is within the budget.
C18_BodyIsPrefixWithinBudget ==
    SummarizeCalled =>
        \A p \in CreateCalls :
            LET body == SubmittedBody(p)
            IN  /\ Len(body) <= max_chars
                /\ body = SubSeq(SummarizedText, 1, Len(body))
                /\ Len(SummarizedText) <= max_chars => body = SummarizedText

\* C18 (amended): the body submitted to the provider equals the input when
\* the input is within the budget; otherwise it is the prefix of the input
\* of exactly the budget's length followed by the three-character marker
\* "...", so it is at most three characters longer than the budget.
C18_BodyIsPrefixPlusMarker ==
    SummarizeCalled =>
        \A p \in CreateCalls :
            LET body == SubmittedBody(p)
            IN  /\ Len(body) <= max_chars + 3
                /\ Len(SummarizedText) <= max_chars => body = SummarizedText
                /\ Len(SummarizedText) > max_chars =>
                      /\ Len(body) = max_chars + 3
                      /\ \A k \in 1..max_chars : body[k] = SummarizedText[k]
                      /\ \A k \in (max_chars + 1)..(max_chars + 3) : body[k] = "."

\* C18 witness: a text one character longer than the budget was submitted
\* as its first max_chars characters and the marker.
C18_Witness ==
    /\ SummarizeCalled
    /\ args.fn = "summarize"
    /\ Len(args.text) = max_chars + 1
    /\ CreateCalls # {}
    /\ \A p \in CreateCalls :
          SubmittedBody(p) = SubSeq(args.text, 1, max_chars) \o << ".", ".", "." >>

\* --------------------------------------------------------------------- C19
\* C19: for a text longer than 12000 characters the provider is still
\* called, and the prompt it receives is the fixed opening, the first 12000
\* characters of the text, "...", and the fixed ending: it holds none of the
\* text beyond character 12000.  For a text of at most 12000 characters the
\* prompt is the opening, the text and the ending, with no "..." added.
C19_LongTextCutAt12000WithEllipsis ==
    (pc = "done" /\ args.fn = "summarize") =>
        /\ Len(log) = 1
        /\ log[1].op = "create"
        /\ LET prompt == log[1].request.messages[2].content
               opening == PromptHead(args.max_length)
               n == Len(opening)
           IN  /\ SubSeq(prompt, 1, n) = opening
               /\ IF Len(args.text) > 12000
                  THEN /\ Len(prompt) = n + 12003 + Len(PromptTail)
                       /\ SubSeq(prompt, n + 1, n + 12000) = SubSeq(args.text, 1, 12000)
                       /\ SubSeq(prompt, n + 12001, n + 12003) = << ".", ".", "." >>
                       /\ SubSeq(prompt, n + 12004, Len(prompt)) = PromptTail
                       /\ \A k \in 1..Len(prompt) : prompt[k] # "z"
                  ELSE prompt = opening \o args.text \o PromptTail

\* C19 witness: a text of 15000 characters, "z" from character 12001 on, was
\* summarized: the provider was called and answered.
C19_Witness ==
    /\ pc = "done"
    /\ args.fn = "summarize"
    /\ Len(args.text) = 15000
    /\ args.text[12001] = "z"
    /\ Len(log) = 1
    /\ result = << "s" >>

\* --------------------------------------------------------------------- C20
\* C20: summarize_video returns None without calling the provider when the
\* video has no 'transcript' field, returns None when summarize returns no
\* summary (None or the empty text), and otherwise returns a text that
\* contains the title, the summary and the URL
\* https://www.youtube.com/watch?v=<video_id>.
C20_SummarizeVideoFormatsOrNone ==
    (pc = "done" /\ args.fn = "summarize_video") =>
        IF "transcript" \notin DOMAIN args.video_info
        THEN result = None /\ log = <<>>
        ELSE /\ Len(log) = 1
             /\ IF log[1].returned \in { None, <<>> } THEN result = None
                ELSE /\ result # None
                     /\ Contains(result, args.video_info.title)
                     /\ Contains(result, log[1].returned)
                     /\ Contains(result, << "https://www.youtube.com/watch?v=" >>
                                            \o args.video_info.video_id)

\* C20 witness: a video with a transcript was summarized and the formatted
\* text was returned.
C20_Witness ==
    /\ pc = "done"
    /\ args.fn = "summarize_video"
    /\ "transcript" \in DOMAIN args.video_info
    /\ args.video_info.video_id = << "b", "_", "x" >>
    /\ log[1].returned = << "s" >>
    /\ result # None

\* --------------------------------------------------------------------- C21
\* C21 (as claimed, violated by the code): the item list a run uses is owned
\* by that run: while a run for a source is in progress, the list holds no
\* item of another source.
C21_ItemListOwnedByRun ==
    /\ fn = "run_for_channel" =>
          \A k \in 1..Len(videos.LangAgent) : videos.LangAgent[k].channel = channel_name
    /\ fn = "search_channel_videos" =>
          \A k \in 1..Len(videos.Agent) : videos.Agent[k].channel_title = channel_name

\* --------------------------------------------------------------------- C22
\* Events p and q belong to the same orchestrator call.
SameCall(p, q) == log[p].call = log[q].call

\* C22: the items of a call are processed one after another: the events of
\* an item are consecutive, and the transcript fetch (and so the
\* summarization) of the next item comes only after the notification of the
\* item before it has returned and its delay has been paid.  The
\* orchestrator waits for send_message: when the send is logged its result
\* is known and the orchestrator is at the delay.
C22_ItemsProcessedOneAfterAnother ==
    /\ [](\A p, q \in LogIdx :
            (p < q /\ SameCall(p, q) /\ ~SameItem(p, q)) =>
                /\ \A r \in LogIdx : (q < r /\ SameCall(p, r)) => ~SameItem(p, r)
                /\ log[p].op = "send_message" =>
                      /\ log[p + 1].op = "sleep"
                      /\ SameItem(p, p + 1)
                      /\ p + 1 < q)
    /\ [][ (pc = "notify" /\ pc' # "raised") =>
                /\ pc' = "sleep"
                /\ dispatch'.attempts >= 1
                /\ dispatch'.delivered \in BOOLEAN
                /\ v' = v /\ idx' = idx ]_vars

\* C22 witness: the first item of a call was notified and its delay paid,
\* and the transcript of the second item has just been fetched.
C22_Witness ==
    /\ Len(log) >= 5
    /\ log[Len(log)].op = "get_video_transcript"
    /\ log[Len(log) - 1].op = "sleep"
    /\ log[Len(log) - 2].op = "send_message"
    /\ SameCall(Len(log), Len(log) - 1)
    /\ ~SameItem(Len(log), Len(log) - 1)

\* --------------------------------------------------------------------- C23
\* The current call has made an external call for an item: item processing
\* has begun.
ProcessingBegun == \E p \in LogIdx : log[p].call = calls

\* C23 (as claimed, violated by the code): once item processing has begun
\* in a run_for_channel call, nothing aborts the call: no exception leaves
\* it, also when the source has no entry in the prompt configuration.
C23_NoAbortOnceProcessingBegun ==
    (fn = "run_for_channel" /\ ProcessingBegun) => pc # "raised"

\* --------------------------------------------------------------------- C24
\* The position of the valid item of a mixed batch.
ValidAt == CHOOSE k \in 1..Len(feed) : feed[k] \in ValidItems

\* The run of the scenario: the resolver returned a transcript, the gateway
\* a summary, and the delivery succeeded at the first attempt (the
\* orchestrator is at the delay after it, or has paid the delay and
\* returned).
ScenarioRun ==
    /\ fn = "run_for_channel"
    /\ \E p \in LogIdx : log[p].op = "summarize" /\ log[p].summary # None
                          /\ log[p].transcript # None
    /\ \/ pc = "sleep" /\ dispatch.delivered /\ dispatch.attempts = 1
       \/ pc = "idle" /\ log[Len(log)].op = "sleep"

\* C24: for a batch of three items, one older than the recency window, one
\* with an empty description and one valid, when the resolver returns a
\* transcript, the gateway a summary and the first delivery attempt
\* succeeds: exactly the valid item is processed, exactly one notification
\* is sent, the cache record of the valid item holds the transcript and the
\* summary, and no record exists for the two excluded items.
C24_EndToEndMixedBatch ==
    ScenarioRun =>
        LET id == VideoIdAt(ValidAt)
        IN  /\ TodoIds = { id }
            /\ \A p \in LogIdx : log[p].id = id
            /\ Cardinality({ p \in LogIdx : log[p].op = "send_message" }) = 1
            /\ Cardinality({ p \in LogIdx : log[p].op = "get_video_transcript" }) = 1
            /\ DOMAIN files = { FileName(channel_name, id) }
            /\ LET record == LoadVideoFromFile(files, channel_name, id)
               IN  /\ record.video_id = id
                   /\ record.transcript \in TranscriptTexts
                   /\ record.summary \in SummaryTexts

\* C24 witness: the valid item is the last of the batch and has the title
\* of the item before it; the run has returned.
C24_Witness ==
    /\ ScenarioRun
    /\ pc = "idle"
    /\ ValidAt = 3
    /\ feed[2].title = feed[3].title
    /\ Len(log) = 5

\* --------------------------------------------------------------------- C25
\* The ids of the items of the batch that have a description.
DescribedIds == { VideoIdAt(k) : k \in { j \in 1..Len(feed) : feed[j].description # <<>> } }

\* C25: no item with an empty description passes the filter of
\* run_for_channel: whatever its title and publish date, it is never among
\* the items the call iterates over, no transcript is fetched for it, it is
\* not summarised, no cache record is written for it and no notification is
\* sent for it, in run_for_channel and in _run_for_channel.
C25_EmptyDescriptionExcluded ==
    /\ fn = "run_for_channel" => TodoIds \subseteq DescribedIds
    /\ \A p \in LogIdx : log[p].fn \in LangFns => log[p].id \in DescribedIds
    /\ \A n \in DOMAIN files : JsonLoad(files[n]).video_id \in DescribedIds
    /\ \A k \in 1..Len(videos.LangAgent) : videos.LangAgent[k].video_id \in DescribedIds

\* C25 witness: the first item of the batch is recent and has no
\* description, the second has one; run_for_channel has cached and notified
\* the second.
C25_Witness ==
    /\ Len(feed) = 2
    /\ feed[1].description = <<>>
    /\ Instant(feed[1].publishedAt) >= now - days * DaySeconds
    /\ feed[2].description # <<>>
    /\ fn = "run_for_channel"
    /\ DOMAIN files # {}
    /\ \E p \in LogIdx : log[p].op = "send_message" /\ log[p].id = VideoIdAt(2)

\* --------------------------------------------------------------------- C26
\* The directory did not resolve the channel id, or failed.
Unresolved(outcome) == outcome.channels # "found" \/ outcome.playlist = "raised"

\* The (channel id, video id) pairs polling turn p contributes: the items of
\* its playlist for which the provider returned a non-empty transcript.
RECURSIVE ItemsOfTurn(_, _)
ItemsOfTurn(p, k) ==
    IF k > Len(log[p].outcome.items) THEN <<>>
    ELSE LET o == log[p].transcripts[k]
             rest == ItemsOfTurn(p, k + 1)
         IN  IF ~o.raised /\ o.segments # <<>>
             THEN << << log[p].id, log[p].outcome.items[k].videoId >> >> \o rest
             ELSE rest

RECURSIVE ItemsFromTurn(_)
ItemsFromTurn(p) ==
    IF p > Len(log) THEN <<>> ELSE ItemsOfTurn(p, 1) \o ItemsFromTurn(p + 1)

\* C26: when the directory does not resolve a channel id, or fails,
\* get_recent_videos returns no items and raises nothing; no
\* get_videos_with_transcripts call is left by an exception, it polls every
\* channel of its list in order, and it returns the items of the channels
\* that resolved (those with a transcript), in order.
C26_UnresolvedSourceSkipped ==
    /\ \A channel_id \in Channels, outcome \in DirectoryOutcomes :
          Unresolved(outcome) =>
              get_recent_videos(channel_id, outcome) = [ raised |-> FALSE, videos |-> <<>> ]
    /\ pc # "raised"
    /\ pc \in { "poll", "done" } =>
          /\ Len(log) <= Len(args.channel_ids)
          /\ \A p \in LogIdx : log[p].id = args.channel_ids[p]
    /\ pc = "done" =>
          /\ Len(log) = Len(args.channel_ids)
          /\ [ k \in 1..Len(result) |-> << result[k].channel_id, result[k].video_id >> ]
                = ItemsFromTurn(1)

\* C26 witness: the first of two channels was not resolved or the directory
\* failed for it; the call has returned the items of the second.
C26_Witness ==
    /\ pc = "done"
    /\ Len(args.channel_ids) = 2
    /\ Unresolved(log[1].outcome)
    /\ ~Unresolved(log[2].outcome)
    /\ Len(result) >= 1
    /\ \A k \in 1..Len(result) : result[k].channel_id = args.channel_ids[2]

\* --------------------------------------------------------------------- C27
\* C27 (as claimed, violated by the code): two different (channel, id) keys
\* are stored in different files, and a save under one key leaves what a load
\* of another key returns as it was: after a record was saved under a key
\* different from the key of the record data/ held, the earlier key still
\* loads the earlier record.
C27_OneRecordPerKey ==
    ( /\ pc = "saved"
      /\ Len(log) = 2
      /\ << log[1].channel, log[1].id >> # << log[2].channel, log[2].id >> )
        => /\ FileName(log[1].channel, log[1].id) # FileName(log[2].channel, log[2].id)
           /\ Cardinality(DOMAIN files) = 2
           /\ LET earlier == LoadVideoFromFile(files, log[1].channel, log[1].id)
              IN  /\ earlier.video_id = log[1].id
                  /\ earlier.transcript = log[1].transcript
                  /\ earlier.summary = log[1].summary

\* --------------------------------------------------------------------- C28
\* C28: in run_for_channel only an item that has a description and is not
\* out of date records its title as seen: the items the call processes are
\* exactly the items that pass these two tests and have no earlier item of
\* the same title passing them, so an item excluded for its description or
\* its age never causes a later item of its title to be dropped.
C28_TitleSeenOnlyByPassingItem ==
    AtFilterTime =>
        \A k \in 1..Len(feed) :
            VideoIdAt(k) \in TodoIds
                <=> /\ PassesOther(k)
                    /\ \A j \in 1..(k - 1) : feed[j].title = feed[k].title => ~PassesOther(j)

\* C28 witness: the first item of the batch is out of date and has a
\* description, the second has its title and passes the two tests: the call
\* processes the second only.
C28_Witness ==
    /\ AtFilterTime
    /\ Len(feed) = 2
    /\ feed[1].title = feed[2].title
    /\ feed[1].description # <<>>
    /\ ~PassesOther(1)
    /\ PassesOther(2)
    /\ TodoIds = { VideoIdAt(2) }

\* --------------------------------------------------------------------- C29
\* The record a file of data/ holds.
RecordOf(fs, n) == JsonLoad(fs[n])

\* C29 (as claimed, violated by the code): after any sequence of
\* run_for_channel and _run_for_channel calls every cache record that holds
\* a summary holds a transcript, and no step replaces a record that holds a
\* transcript by a record that holds none.
C29_CacheRecordsKeepTranscript ==
    /\ [](\A n \in DOMAIN files :
            RecordOf(files, n).summary # None => RecordOf(files, n).transcript # None)
    /\ [][\A n \in DOMAIN files :
            RecordOf(files, n).transcript # None => RecordOf(files', n).transcript # None]_vars

\* --------------------------------------------------------------------- C30
\* The ids of the events of the current call that satisfy Test, in order.
IdsOfCall(Test(_)) ==
    LET events == SelectSeq(log, LAMBDA e : e.call = calls /\ Test(e))
    IN  [ k \in 1..Len(events) |-> events[k].id ]

Resolved(e) == e.op = "get_video_transcript" /\ e.transcript # None
Sent(e) == e.op = "send_message"

\* The last n items of the list of processed items.
LastProcessed(n) ==
    LET all == videos.LangAgent
    IN  [ k \in 1..n |-> all[Len(all) - n + k].video_id ]

\* C30 (as claimed, violated by the code): when a run_for_channel call has
\* ended, the notifications it sent are one for each of its items whose
\* transcript was resolved, in the order of the items, and none for another
\* item; the list of processed items gained exactly those items, and every
\* item of the list has a transcript.
C30_OneSendPerResolvedItem ==
    /\ (fn = "run_for_channel" /\ pc \in { "idle", "raised" }) =>
          /\ IdsOfCall(Sent) = IdsOfCall(Resolved)
          /\ Len(videos.LangAgent) >= Len(IdsOfCall(Resolved))
          /\ LastProcessed(Len(IdsOfCall(Resolved))) = IdsOfCall(Resolved)
    /\ \A k \in 1..Len(videos.LangAgent) : videos.LangAgent[k].transcript # None

====
